---------------------------- MODULE Spec2Model ----------------------------
(***************************************************************************)
(* Model of the life_expectancy package: the Region catalog (enums.py),    *)
(* the format readers (readers.py) and the cleaning pipeline (cleaning.py).*)
(*                                                                         *)
(* Text is modelled character by character: a Python str is a tuple of     *)
(* one-character strings, so that strip, upper, lower, split, the regular  *)
(* expression of clean_data and the numeric parser of pandas are computed  *)
(* rather than assumed.  A float is a record [k, v]: k = "num" with v the  *)
(* value in units of 10^-FracDigits, k = "nan", or k = "inf" with v the    *)
(* sign.  A cell of a DataFrame is a record [t, s, k, v]: text (t = "str", *)
(* s the characters), a float, an int, or None.                            *)
(***************************************************************************)
EXTENDS Integers, Sequences, FiniteSets, TLC

VARIABLES
    pc,                   \* position of the modelled call
    country,              \* args.country / the `country` alias of clean_data
    export_country_code,  \* the resolved Region member
    df,                   \* the DataFrame handed to clean_data or read from a file
    data,                 \* the parsed JSON document handed to the JSON adapter
    path,                 \* the path handed to make_reader
    lin,                  \* _unravel: the linear index it was called with
    index,                \* _unravel: the running index
    bases,                \* _unravel: the base sizes
    result                \* what the call returned or raised

vars == <<pc, country, export_country_code, df, data, path, lin, index, bases, result>>

regionVars == <<country, export_country_code>>
inputVars == <<df, data, path>>
unravelVars == <<lin, index, bases>>

Null == <<>>

IdleRegion == country = Null /\ export_country_code = Null
IdleInput == df = Null /\ data = Null /\ path = Null
IdleUnravel == lin = 0 /\ index = 0 /\ bases = <<>>

-----------------------------------------------------------------------------
(* Bounds of the model *)

\* digits kept after the decimal point in the model of a float
FracDigits == 3

-----------------------------------------------------------------------------
(* Python str operations, on tuples of characters *)

LowerLetters == <<"a","b","c","d","e","f","g","h","i","j","k","l","m",
                  "n","o","p","q","r","s","t","u","v","w","x","y","z">>
UpperLetters == <<"A","B","C","D","E","F","G","H","I","J","K","L","M",
                  "N","O","P","Q","R","S","T","U","V","W","X","Y","Z">>
Digits == <<"0","1","2","3","4","5","6","7","8","9">>

IsDigit(c) == \E i \in 1..10 : Digits[i] = c
DigitVal(c) == (CHOOSE i \in 1..10 : Digits[i] = c) - 1
IsSpace(c) == c = " "

UpperChar(c) ==
    IF \E i \in 1..26 : LowerLetters[i] = c
    THEN UpperLetters[CHOOSE i \in 1..26 : LowerLetters[i] = c]
    ELSE c
LowerChar(c) ==
    IF \E i \in 1..26 : UpperLetters[i] = c
    THEN LowerLetters[CHOOSE i \in 1..26 : UpperLetters[i] = c]
    ELSE c

\* str.upper(), str.lower()
StrUpper(s) == [i \in 1..Len(s) |-> UpperChar(s[i])]
StrLower(s) == [i \in 1..Len(s) |-> LowerChar(s[i])]

\* str.strip(): drop leading and trailing whitespace
StrStrip(s) ==
    LET keep == {i \in 1..Len(s) : ~IsSpace(s[i])}
    IN  IF keep = {} THEN <<>>
        ELSE LET lo == CHOOSE i \in keep : \A j \in keep : i <= j
                 hi == CHOOSE i \in keep : \A j \in keep : j <= i
             IN  SubSeq(s, lo, hi)

\* str.replace(c, "") for a one-character c
StrRemove(s, c) == SelectSeq(s, LAMBDA x : x # c)

\* str.split(sep) for a one-character sep: the fields between the separators
RECURSIVE StrSplit(_, _)
StrSplit(s, sep) ==
    IF \A i \in 1..Len(s) : s[i] # sep THEN <<s>>
    ELSE LET p == CHOOSE i \in 1..Len(s) :
                     s[i] = sep /\ \A j \in 1..(i - 1) : s[j] # sep
         IN  <<SubSeq(s, 1, p - 1)>> \o StrSplit(SubSeq(s, p + 1, Len(s)), sep)

-----------------------------------------------------------------------------
(* enums.py: the Region catalog *)

\* the members of Region in definition order
Region == <<
    [name |-> <<"A", "L">>, value |-> <<"A", "L">>],
    [name |-> <<"A", "M">>, value |-> <<"A", "M">>],
    [name |-> <<"A", "T">>, value |-> <<"A", "T">>],
    [name |-> <<"A", "Z">>, value |-> <<"A", "Z">>],
    [name |-> <<"B", "E">>, value |-> <<"B", "E">>],
    [name |-> <<"B", "G">>, value |-> <<"B", "G">>],
    [name |-> <<"B", "Y">>, value |-> <<"B", "Y">>],
    [name |-> <<"C", "H">>, value |-> <<"C", "H">>],
    [name |-> <<"C", "Y">>, value |-> <<"C", "Y">>],
    [name |-> <<"C", "Z">>, value |-> <<"C", "Z">>],
    [name |-> <<"D", "E">>, value |-> <<"D", "E">>],
    [name |-> <<"D", "E", "_", "T", "O", "T">>, value |-> <<"D", "E", "_", "T", "O", "T">>],
    [name |-> <<"D", "K">>, value |-> <<"D", "K">>],
    [name |-> <<"E", "A", "1", "8">>, value |-> <<"E", "A", "1", "8">>],
    [name |-> <<"E", "A", "1", "9">>, value |-> <<"E", "A", "1", "9">>],
    [name |-> <<"E", "E">>, value |-> <<"E", "E">>],
    [name |-> <<"E", "E", "A", "3", "0", "_", "2", "0", "0", "7">>, value |-> <<"E", "E", "A", "3", "0", "_", "2", "0", "0", "7">>],
    [name |-> <<"E", "E", "A", "3", "1">>, value |-> <<"E", "E", "A", "3", "1">>],
    [name |-> <<"E", "F", "T", "A">>, value |-> <<"E", "F", "T", "A">>],
    [name |-> <<"E", "L">>, value |-> <<"E", "L">>],
    [name |-> <<"E", "S">>, value |-> <<"E", "S">>],
    [name |-> <<"E", "U", "2", "7", "_", "2", "0", "0", "7">>, value |-> <<"E", "U", "2", "7", "_", "2", "0", "0", "7">>],
    [name |-> <<"E", "U", "2", "7", "_", "2", "0", "2", "0">>, value |-> <<"E", "U", "2", "7", "_", "2", "0", "2", "0">>],
    [name |-> <<"E", "U", "2", "8">>, value |-> <<"E", "U", "2", "8">>],
    [name |-> <<"F", "I">>, value |-> <<"F", "I">>],
    [name |-> <<"F", "R">>, value |-> <<"F", "R">>],
    [name |-> <<"F", "X">>, value |-> <<"F", "X">>],
    [name |-> <<"G", "E">>, value |-> <<"G", "E">>],
    [name |-> <<"H", "R">>, value |-> <<"H", "R">>],
    [name |-> <<"H", "U">>, value |-> <<"H", "U">>],
    [name |-> <<"I", "E">>, value |-> <<"I", "E">>],
    [name |-> <<"I", "S">>, value |-> <<"I", "S">>],
    [name |-> <<"I", "T">>, value |-> <<"I", "T">>],
    [name |-> <<"L", "I">>, value |-> <<"L", "I">>],
    [name |-> <<"L", "T">>, value |-> <<"L", "T">>],
    [name |-> <<"L", "U">>, value |-> <<"L", "U">>],
    [name |-> <<"L", "V">>, value |-> <<"L", "V">>],
    [name |-> <<"M", "D">>, value |-> <<"M", "D">>],
    [name |-> <<"M", "E">>, value |-> <<"M", "E">>],
    [name |-> <<"M", "K">>, value |-> <<"M", "K">>],
    [name |-> <<"M", "T">>, value |-> <<"M", "T">>],
    [name |-> <<"N", "L">>, value |-> <<"N", "L">>],
    [name |-> <<"N", "O">>, value |-> <<"N", "O">>],
    [name |-> <<"P", "L">>, value |-> <<"P", "L">>],
    [name |-> <<"P", "T">>, value |-> <<"P", "T">>],
    [name |-> <<"R", "O">>, value |-> <<"R", "O">>],
    [name |-> <<"R", "S">>, value |-> <<"R", "S">>],
    [name |-> <<"R", "U">>, value |-> <<"R", "U">>],
    [name |-> <<"S", "E">>, value |-> <<"S", "E">>],
    [name |-> <<"S", "I">>, value |-> <<"S", "I">>],
    [name |-> <<"S", "K">>, value |-> <<"S", "K">>],
    [name |-> <<"S", "M">>, value |-> <<"S", "M">>],
    [name |-> <<"T", "R">>, value |-> <<"T", "R">>],
    [name |-> <<"U", "A">>, value |-> <<"U", "A">>],
    [name |-> <<"U", "K">>, value |-> <<"U", "K">>],
    [name |-> <<"X", "K">>, value |-> <<"X", "K">>]
>>

\* Region[name]: lookup by member name, case-sensitive; KeyError otherwise
IsRegionName(n) == \E k \in 1..Len(Region) : Region[k].name = n
RegionByName(n) == Region[CHOOSE k \in 1..Len(Region) : Region[k].name = n]

\* (mutant) the excluded set without EU28
ExcludedNoEU28 ==
    { <<"D","E","_","T","O","T">>, <<"E","A","1","8">>, <<"E","A","1","9">>,
      <<"E","E","A","3","0","_","2","0","0","7">>, <<"E","E","A","3","1">>,
      <<"E","F","T","A">>, <<"E","U","2","7","_","2","0","0","7">>,
      <<"E","U","2","7","_","2","0","2","0">> }
\* the `excluded` set of Region.actual_countries
Excluded ==
    { <<"D","E","_","T","O","T">>, <<"E","A","1","8">>, <<"E","A","1","9">>,
      <<"E","E","A","3","0","_","2","0","0","7">>, <<"E","E","A","3","1">>,
      <<"E","F","T","A">>, <<"E","U","2","7","_","2","0","0","7">>,
      <<"E","U","2","7","_","2","0","2","0">>, <<"E","U","2","8">> }

\* (mutant) actual_countries that lets EU28 through
ActualCountriesKeepsEU28 == SelectSeq(Region, LAMBDA r : r.name \notin ExcludedNoEU28)

\* Region.actual_countries(): [r for r in cls if r not in excluded]
ActualCountries == SelectSeq(Region, LAMBDA r : r.name \notin Excluded)

-----------------------------------------------------------------------------
(* cleaning.py, main(): validation of --country *)

\* codes per line of the "Valid country codes" message
ChunkSize == 10

Min(a, b) == IF a <= b THEN a ELSE b

\* [", ".join(valid_values[i : i + 10]) for i in range(0, len, 10)]
Chunks(valid_values) ==
    LET n == Len(valid_values)
        m == (n + ChunkSize - 1) \div ChunkSize
    IN  [j \in 1..m |-> SubSeq(valid_values, ChunkSize * (j - 1) + 1,
                                Min(ChunkSize * j, n))]

\* the values --country takes in the model: every member name and some
\* texts that name no member
CountryArgs ==
    {Region[k].name : k \in 1..Len(Region)}
      \cup { <<"p","t">>, <<"X","X">>, <<>>, <<"E","U">>, <<"P","T"," ">> }

InitMain ==
    /\ pc = "main"
    /\ country \in CountryArgs
    /\ export_country_code = Null
    /\ result = Null
    /\ IdleInput /\ IdleUnravel

\* country_enum = Region[args.country]
MainResolve ==
    /\ pc = "main"
    /\ IsRegionName(country)
    /\ export_country_code' = RegionByName(country)
    /\ pc' = "resolved"
    /\ UNCHANGED <<country, result, inputVars, unravelVars>>

\* except KeyError: raise ValueError listing Region.actual_countries()
MainInvalid ==
    /\ pc = "main"
    /\ ~IsRegionName(country)
    /\ result' = [error |-> "ValueError",
                  offending |-> country,
                  valid |-> ActualCountries,
                  chunks |-> Chunks([k \in 1..Len(ActualCountries) |->
                                        ActualCountries[k].value])]
    /\ pc' = "raised"
    /\ UNCHANGED <<regionVars, inputVars, unravelVars>>

NextMain == MainResolve \/ MainInvalid

SpecMain == InitMain /\ [][NextMain]_vars

\* the nine aggregate codes, as the documentation of the catalog lists them
AggregateCodes ==
    { <<"D","E","_","T","O","T">>, <<"E","A","1","8">>, <<"E","A","1","9">>,
      <<"E","E","A","3","0","_","2","0","0","7">>, <<"E","E","A","3","1">>,
      <<"E","F","T","A">>, <<"E","U","2","7","_","2","0","0","7">>,
      <<"E","U","2","7","_","2","0","2","0">>, <<"E","U","2","8">> }

\* C9: the list of actual countries holds no aggregate code, holds every
\* other catalog code exactly once, and its length is the catalog size minus
\* the number of aggregates.
C9_AggregateExclusion ==
    pc = "raised" =>
        LET v == result.valid
        IN  /\ \A k \in 1..Len(v) : v[k].value \notin AggregateCodes
            /\ \A r \in 1..Len(Region) :
                   Region[r].value \notin AggregateCodes =>
                       Cardinality({k \in 1..Len(v) : v[k] = Region[r]}) = 1
            /\ Len(v) = Len(Region) - Cardinality(AggregateCodes)
            /\ Cardinality(AggregateCodes) = 9

C9_Witness ==
    /\ pc = "raised"
    /\ Len(result.valid) = 47
    /\ \E k \in 1..Len(result.valid) : result.valid[k].value = <<"P","T">>

-----------------------------------------------------------------------------
(* readers.py: make_reader *)

\* PurePath.name: the text after the last "/"
PathName(p) ==
    LET slashes == {i \in 1..Len(p) : p[i] = "/"}
    IN  IF slashes = {} THEN p
        ELSE SubSeq(p, (CHOOSE i \in slashes : \A j \in slashes : j <= i) + 1, Len(p))

\* PurePath.suffix: the name from its last "." on, unless that "." leads or
\* ends the name
PathSuffix(p) ==
    LET name == PathName(p)
        dots == {i \in 1..Len(name) : name[i] = "."}
    IN  IF dots = {} THEN <<>>
        ELSE LET i == CHOOSE d \in dots : \A j \in dots : j <= d
             IN  IF 1 < i /\ i < Len(name) THEN SubSeq(name, i, Len(name)) ELSE <<>>

ExtTsv == <<".","t","s","v">>
ExtCsv == <<".","c","s","v">>
ExtJson == <<".","j","s","o","n">>

\* (mutant) make_reader comparing the suffix without lower-casing it
MakeReaderCaseSensitive(p) ==
    LET ext == PathSuffix(p)
    IN  IF ext \in {ExtTsv, ExtCsv}
        THEN [ok |-> TRUE, reader |-> "CSVReader", path |-> p, error |-> "", ext |-> ext]
        ELSE IF ext = ExtJson
        THEN [ok |-> TRUE, reader |-> "EurostatJSONAdapter", path |-> p, error |-> "", ext |-> ext]
        ELSE [ok |-> FALSE, reader |-> "", path |-> p, error |-> "Unsupported extension", ext |-> ext]

\* make_reader(path): the reader by path.suffix.lower(), or ValueError
MakeReader(p) ==
    LET ext == StrLower(PathSuffix(p))
    IN  IF ext \in {ExtTsv, ExtCsv}
        THEN [ok |-> TRUE, reader |-> "CSVReader", path |-> p, error |-> "", ext |-> ext]
        ELSE IF ext = ExtJson
        THEN [ok |-> TRUE, reader |-> "EurostatJSONAdapter", path |-> p, error |-> "", ext |-> ext]
        ELSE [ok |-> FALSE, reader |-> "", path |-> p, error |-> "Unsupported extension", ext |-> ext]

\* the paths of the model: a directory part, a stem and an ending
PathDirs == { <<>>, <<"d",".","c","s","v","/">> }
PathStems == { <<>>, <<"a">>, <<"b",".","j","s","o","n">> }
PathEndings ==
    { <<>>, ExtTsv, ExtCsv, ExtJson,
      <<".","T","S","V">>, <<".","C","s","v">>, <<".","J","S","O","N">>,
      <<".","p","a","r","q","u","e","t">>, <<".","t","x","t">>, <<".","f","o","o">>,
      <<".","j","s","o","n","l">>, <<".","t","s","v","1">>, <<"t","s","v">> }
Paths ==
    {q \in {d \o s \o e : d \in PathDirs, s \in PathStems, e \in PathEndings} :
        PathName(q) # <<>>}

InitFactory ==
    /\ pc = "factory"
    /\ path \in Paths
    /\ df = Null /\ data = Null
    /\ result = Null
    /\ IdleRegion /\ IdleUnravel

\* return CSVReader(path) / EurostatJSONAdapter(path)
MakeReaderReturns ==
    /\ pc = "factory"
    /\ MakeReader(path).ok
    /\ result' = MakeReader(path)
    /\ pc' = "reader"
    /\ UNCHANGED <<regionVars, inputVars, unravelVars>>

\* raise ValueError(f"Unsupported extension: {ext}")
MakeReaderRaises ==
    /\ pc = "factory"
    /\ ~MakeReader(path).ok
    /\ result' = MakeReader(path)
    /\ pc' = "raised"
    /\ UNCHANGED <<regionVars, inputVars, unravelVars>>

NextFactory == MakeReaderReturns \/ MakeReaderRaises

SpecFactory == InitFactory /\ [][NextFactory]_vars

\* the name of the path ends with the ending e, compared as written
EndsWith(p, e) ==
    LET name == PathName(p)
    IN  /\ Len(name) > Len(e)
        /\ SubSeq(name, Len(name) - Len(e) + 1, Len(name)) = e
\* the same, letter case ignored
EndsWithAnyCase(p, e) ==
    LET name == PathName(p)
    IN  /\ Len(name) > Len(e)
        /\ StrLower(SubSeq(name, Len(name) - Len(e) + 1, Len(name))) = e

\* C6 as stated: .tsv and .csv give the Delimited Reader, .json the JSON
\* Reader, and every other extension fails with UnsupportedExtension.
C6_ExactExtension ==
    pc \in {"reader", "raised"} =>
        /\ (EndsWith(path, ExtTsv) \/ EndsWith(path, ExtCsv))
              <=> (result.ok /\ result.reader = "CSVReader")
        /\ EndsWith(path, ExtJson)
              <=> (result.ok /\ result.reader = "EurostatJSONAdapter")

\* C6 (amended): the reader is decided by the extension with letter case
\* ignored: .tsv/.csv give the Delimited Reader, .json the JSON Reader, every
\* other extension (none included) fails with UnsupportedExtension, and
\* nothing is read and no reader returned in that case.
C6_ExtensionDispatch ==
    pc \in {"reader", "raised"} =>
        /\ (EndsWithAnyCase(path, ExtTsv) \/ EndsWithAnyCase(path, ExtCsv))
              <=> (pc = "reader" /\ result.ok /\ result.reader = "CSVReader")
        /\ EndsWithAnyCase(path, ExtJson)
              <=> (pc = "reader" /\ result.ok /\ result.reader = "EurostatJSONAdapter")
        /\ (~EndsWithAnyCase(path, ExtTsv) /\ ~EndsWithAnyCase(path, ExtCsv)
               /\ ~EndsWithAnyCase(path, ExtJson))
              <=> (pc = "raised" /\ ~result.ok /\ result.reader = ""
                     /\ result.error = "Unsupported extension")
        /\ df = Null /\ data = Null
        /\ result.path = path

\* an upper-case .TSV path was given a Delimited Reader
C6_Witness ==
    /\ pc = "reader"
    /\ result.reader = "CSVReader"
    /\ PathSuffix(path) = <<".","T","S","V">>

-----------------------------------------------------------------------------
(* readers.py: EurostatJSONAdapter._unravel *)

\* most dimensions, and the largest base size, of the index spaces explored
MaxDims == 3
MaxBase == 3

Reverse(s) == [i \in 1..Len(s) |-> s[Len(s) + 1 - i]]

\* the loop of _unravel over reversed(bases): coords collected last
\* dimension first, index divided down as it goes
RECURSIVE UnravelLoop(_, _, _)
UnravelLoop(i, rbases, coords) ==
    IF rbases = <<>> THEN [coords |-> coords, index |-> i]
    ELSE UnravelLoop(i \div Head(rbases), Tail(rbases), Append(coords, i % Head(rbases)))

\* (mutant) _unravel without the final reversal: first dimension fastest
UnravelUnreversed(i, bs) == UnravelLoop(i, Reverse(bs), <<>>).coords

\* _unravel(index, bases)
Unravel(i, bs) == Reverse(UnravelLoop(i, Reverse(bs), <<>>).coords)

RECURSIVE Product(_)
Product(s) == IF s = <<>> THEN 1 ELSE Head(s) * Product(Tail(s))

BaseLists == UNION {[1..n -> 1..MaxBase] : n \in 1..MaxDims}

InitUnravel ==
    /\ pc = "unravel"
    /\ bases \in BaseLists
    /\ lin \in (-1)..Product(bases)
    /\ index = lin
    /\ result = Null
    /\ IdleRegion /\ IdleInput

\* coord = EurostatJSONAdapter._unravel(lin, bases)
UnravelCall ==
    /\ pc = "unravel"
    /\ result' = Unravel(lin, bases)
    /\ index' = UnravelLoop(lin, Reverse(bases), <<>>).index
    /\ pc' = "returned"
    /\ UNCHANGED <<lin, bases, regionVars, inputVars>>

NextUnravel == UnravelCall

SpecUnravel == InitUnravel /\ [][NextUnravel]_vars

\* row-major ravel: the last dimension varies fastest
RECURSIVE Ravel(_, _)
Ravel(c, bs) ==
    IF c = <<>> THEN 0
    ELSE Head(c) * Product(Tail(bs)) + Ravel(Tail(c), Tail(bs))

\* every coordinate vector of the index space of bs
CoordSpace(bs) == {c \in [1..Len(bs) -> 0..MaxBase] : \A k \in 1..Len(bs) : c[k] < bs[k]}

\* C8: for bases >= 1 and 0 <= i < product of the bases, _unravel returns
\* one coordinate per dimension, each within [0, base), whose row-major
\* ravel is i; and every coordinate vector is the image of its ravel, so
\* unraveling is a bijection between the index range and the coordinates.
C8_RoundTripUnravel ==
    (pc = "returned" /\ 0 <= lin /\ lin < Product(bases)) =>
        /\ Len(result) = Len(bases)
        /\ \A k \in 1..Len(bases) : 0 <= result[k] /\ result[k] < bases[k]
        /\ Ravel(result, bases) = lin
        /\ lin = 0 =>
              \A c \in CoordSpace(bases) :
                  /\ Ravel(c, bases) \in 0..(Product(bases) - 1)
                  /\ Unravel(Ravel(c, bases), bases) = c

\* index 5 of the space (2, 3) was unraveled to (1, 2), the last dimension
\* varying fastest
C8_Witness ==
    /\ pc = "returned"
    /\ bases = <<2, 3>>
    /\ lin = 5
    /\ result = <<1, 2>>

-----------------------------------------------------------------------------
(* Floats, and the cells of a DataFrame *)

RECURSIVE Pow10(_)
Pow10(n) == IF n <= 0 THEN 1 ELSE 10 * Pow10(n - 1)

Num(v) == [k |-> "num", v |-> v]
NaN == [k |-> "nan", v |-> 0]
Inf(sgn) == [k |-> "inf", v |-> sgn]

\* a cell is text, a float, an int or None
S(s) == [t |-> "str", s |-> s, k |-> "", v |-> 0]
F(x) == [t |-> "float", s |-> <<>>, k |-> x.k, v |-> x.v]
I(n) == [t |-> "int", s |-> <<>>, k |-> "num", v |-> n]
NoneCell == [t |-> "none", s |-> <<>>, k |-> "", v |-> 0]
NaNCell == F(NaN)

\* pandas isna / notna
IsNa(c) == c.t = "none" \/ (c.t = "float" /\ c.k = "nan")

\* the length of the run of digits of s that starts at position p
DigitRun(s, p) ==
    LET stops == {i \in p..Len(s) : ~IsDigit(s[i])}
    IN  IF stops = {} THEN Len(s) - p + 1
        ELSE (CHOOSE i \in stops : \A j \in stops : i <= j) - p

RECURSIVE DigitsToNat(_)
DigitsToNat(s) ==
    IF s = <<>> THEN 0
    ELSE 10 * DigitsToNat(SubSeq(s, 1, Len(s) - 1)) + DigitVal(s[Len(s)])

RECURSIVE NatToDigits(_)
NatToDigits(n) ==
    IF n < 10 THEN <<Digits[n + 1]>>
    ELSE Append(NatToDigits(n \div 10), Digits[(n % 10) + 1])

\* the scan of a decimal number [sign]digits[.digits][e[sign]digits]: the
\* part being read (ph), the sign, the digits of the mantissa read so far
\* (mant, nd of them, nfrac after the point), the exponent and its sign
ScanStart ==
    [ph |-> "sign", neg |-> FALSE, mant |-> 0, nd |-> 0, nfrac |-> 0,
     eneg |-> FALSE, ex |-> 0]
ScanBad(st) == [st EXCEPT !.ph = "bad"]
ScanStep(st, c) ==
    IF st.ph \in {"sign", "int", "frac"} /\ IsDigit(c)
    THEN [st EXCEPT !.ph = IF @ = "sign" THEN "int" ELSE @,
                    !.mant = 10 * @ + DigitVal(c),
                    !.nd = @ + 1,
                    !.nfrac = IF st.ph = "frac" THEN @ + 1 ELSE @]
    ELSE IF st.ph = "sign" /\ c \in {"+", "-"}
    THEN [st EXCEPT !.ph = "int", !.neg = (c = "-")]
    ELSE IF st.ph \in {"sign", "int"} /\ c = "."
    THEN [st EXCEPT !.ph = "frac"]
    ELSE IF st.ph \in {"int", "frac"} /\ c \in {"e", "E"} /\ st.nd > 0
    THEN [st EXCEPT !.ph = "e"]
    ELSE IF st.ph = "e" /\ c \in {"+", "-"}
    THEN [st EXCEPT !.ph = "esign", !.eneg = (c = "-")]
    ELSE IF st.ph \in {"e", "esign", "exp"} /\ IsDigit(c)
    THEN [st EXCEPT !.ph = "exp", !.ex = 10 * @ + DigitVal(c)]
    ELSE ScanBad(st)
RECURSIVE Scan(_, _)
Scan(st, s) == IF s = <<>> THEN st ELSE Scan(ScanStep(st, Head(s)), Tail(s))

\* mant * 10^shift, the digits below the model's precision cut off
Scaled(mant, shift) ==
    IF shift >= 0 THEN mant * Pow10(shift) ELSE mant \div Pow10(-shift)
\* the float of a finished scan; NaN when the text was no number
ScanValue(st) ==
    IF (st.ph \in {"int", "frac"} /\ st.nd > 0) \/ st.ph = "exp"
    THEN Num((IF st.neg THEN -1 ELSE 1)
               * Scaled(st.mant, (IF st.eneg THEN -st.ex ELSE st.ex) - st.nfrac + FracDigits))
    ELSE NaN
\* the decimal number that is the whole of s, as a float
ParseDecimal(s) == ScanValue(Scan(ScanStart, s))

\* the float a text parses to under pd.to_numeric(errors="coerce") and
\* under float(): surrounding whitespace ignored, the words nan / inf /
\* infinity accepted in any case, NaN for everything else that is no number
ParseFloat(s) ==
    LET t == StrLower(StrStrip(s))
    IN  IF t \in {<<"n", "a", "n">>, <<"+", "n", "a", "n">>, <<"-", "n", "a", "n">>} THEN NaN
        ELSE IF t \in {<<"i", "n", "f">>, <<"+", "i", "n", "f">>, <<"i", "n", "f", "i", "n", "i", "t", "y">>, <<"+", "i", "n", "f", "i", "n", "i", "t", "y">>} THEN Inf(1)
        ELSE IF t \in {<<"-", "i", "n", "f">>, <<"-", "i", "n", "f", "i", "n", "i", "t", "y">>} THEN Inf(-1)
        ELSE ParseDecimal(t)

\* pd.to_numeric(errors="coerce") on one cell
ToNumeric(c) ==
    IF c.t = "str" THEN ParseFloat(c.s)
    ELSE IF c.t = "float" THEN [k |-> c.k, v |-> c.v]
    ELSE IF c.t = "int" THEN Num(c.v * Pow10(FracDigits))
    ELSE NaN

\* str(n) for an int
FormatInt(n) == IF n < 0 THEN <<"-">> \o NatToDigits(-n) ELSE NatToDigits(n)

\* the digits of a fraction f of FracDigits digits, trailing zeros dropped
\* but one digit kept
RECURSIVE FracText(_, _)
FracText(f, n) ==
    IF n = 1 THEN NatToDigits(f)
    ELSE IF f % 10 = 0 THEN FracText(f \div 10, n - 1)
    ELSE FracText(f \div Pow10(n - 1), 1) \o FracText(f % Pow10(n - 1), n - 1)

\* str(x) for a float (repr in positional notation)
FormatFloat(x) ==
    IF x.k = "nan" THEN <<"n", "a", "n">>
    ELSE IF x.k = "inf" THEN (IF x.v < 0 THEN <<"-", "i", "n", "f">> ELSE <<"i", "n", "f">>)
    ELSE LET a == IF x.v < 0 THEN -x.v ELSE x.v
         IN  (IF x.v < 0 THEN <<"-">> ELSE <<>>)
                \o NatToDigits(a \div Pow10(FracDigits)) \o <<".">>
                \o FracText(a % Pow10(FracDigits), FracDigits)

\* Series.astype(str) on one cell
AsStr(c) ==
    IF c.t = "str" THEN c.s
    ELSE IF c.t = "float" THEN FormatFloat([k |-> c.k, v |-> c.v])
    ELSE IF c.t = "int" THEN FormatInt(c.v)
    ELSE <<"N", "o", "n", "e">>

\* int(x) for a finite float: truncation toward zero
TruncToInt(x) ==
    IF x.v >= 0 THEN x.v \div Pow10(FracDigits)
    ELSE -((-x.v) \div Pow10(FracDigits))

\* Series.str.extract(r"(\d+\.?\d*)") on one text: the leftmost run of
\* digits, with a "." and further digits after it when they follow; a
\* missing cell when the text holds no digit
ExtractNumeric(s) ==
    LET ds == {i \in 1..Len(s) : IsDigit(s[i])}
    IN  IF ds = {} THEN NaNCell
        ELSE LET p == CHOOSE i \in ds : \A j \in ds : i <= j
                 n == DigitRun(s, p)
                 q == p + n
                 dot == q <= Len(s) /\ s[q] = "."
                 m == IF dot THEN DigitRun(s, q + 1) ELSE 0
             IN  S(SubSeq(s, p, IF dot THEN q + m ELSE q - 1))

-----------------------------------------------------------------------------
(* DataFrames: [columns |-> names, rows |-> rows of cells in column order] *)

COMBINED == <<"u", "n", "i", "t", ",", "s", "e", "x", ",", "a", "g", "e", ",", "g", "e", "o", "\\", "t", "i", "m", "e">>
ColUnit == <<"u", "n", "i", "t">>
ColSex == <<"s", "e", "x">>
ColAge == <<"a", "g", "e">>
ColGeo == <<"g", "e", "o">>
ColTime == <<"t", "i", "m", "e">>
ColValue == <<"v", "a", "l", "u", "e">>
ColRegion == <<"r", "e", "g", "i", "o", "n">>
ColYear == <<"y", "e", "a", "r">>

\* the `country` argument left at its default None
NoneText == <<"<None>">>

HasCol(cols, name) == \E i \in 1..Len(cols) : cols[i] = name
ColIndex(cols, name) ==
    CHOOSE i \in 1..Len(cols) : cols[i] = name /\ \A j \in 1..(i - 1) : cols[j] # name

Max(a, b) == IF a >= b THEN a ELSE b

RECURSIVE MaxLen(_)
MaxLen(ss) == IF ss = <<>> THEN 0 ELSE Max(Len(Head(ss)), MaxLen(Tail(ss)))

\* DataFrame.melt(id_vars=[id], var_name, value_name): one row per (value
\* column, data row), the value columns in order and the data rows in order
\* within each; each row holds the id cell, the column's name and its cell
Melt(d, id) ==
    LET vc == SelectSeq([i \in 1..Len(d.columns) |-> i], LAMBDA i : d.columns[i] # id)
        n == Len(d.rows)
        ic == ColIndex(d.columns, id)
    IN  [k \in 1..(n * Len(vc)) |->
            LET j == vc[((k - 1) \div n) + 1]
                i == ((k - 1) % n) + 1
            IN  [id |-> d.rows[i][ic], var |-> S(d.columns[j]), value |-> d.rows[i][j]]]

\* Series.str.split(",", expand=True): the fields of every cell, in as many
\* columns as the longest cell has fields; shorter cells are padded with None
SplitFields(c) == IF c.t = "str" THEN StrSplit(c.s, ",") ELSE <<>>
SplitWidth(cells) == MaxLen([i \in 1..Len(cells) |-> SplitFields(cells[i])])
\* the k-th column of the split for a cell whose fields are f
SplitField(c, f, k) ==
    IF c.t # "str" THEN NaNCell
    ELSE IF k <= Len(f) THEN S(f[k]) ELSE NoneCell

-----------------------------------------------------------------------------
(* cleaning.py: _map_geo_to_enum_value and clean_data *)

\* name_map and val_map: the upper-cased name, and value, of every member
\* against its value
NameMap == [k \in 1..Len(Region) |-> [key |-> StrUpper(Region[k].name), value |-> Region[k].value]]
ValMap == [k \in 1..Len(Region) |-> [key |-> StrUpper(Region[k].value), value |-> Region[k].value]]

\* _map_one: val_map.get(u) or name_map.get(u) or None, u the stripped,
\* upper-cased text; <<>> of members stands for None
MapOneMatches(x) ==
    LET u == StrUpper(StrStrip(x))
        byValue == SelectSeq(ValMap, LAMBDA e : e.key = u)
        byName == SelectSeq(NameMap, LAMBDA e : e.key = u)
    IN  IF byValue # <<>> THEN byValue ELSE byName

\* _map_geo_to_enum_value on one cell: the matched member's value, the cell
\* itself where nothing matched (fillna)
MapGeoToEnumValue(c) ==
    LET m == MapOneMatches(AsStr(c))
    IN  IF m # <<>> THEN S(m[Len(m)].value) ELSE c

\* step 2, normalized shape: the columns lower-cased hold all six names
NormalizedNames == {ColUnit, ColSex, ColAge, ColGeo, ColTime, ColValue}
LowerColumns(cols) == [i \in 1..Len(cols) |-> StrLower(cols[i])]
IsNormalized(cols) == \A n \in NormalizedNames : HasCol(LowerColumns(cols), n)

\* (mutant) the combined header looked for in its own letter case
CombinedNameCaseSensitive(cols) ==
    SelectSeq(cols, LAMBDA c : StrStrip(c) = COMBINED)

\* step 2, fallback: the first column that is the combined header once
\* stripped and lower-cased (columns of <<>> stands for None)
CombinedName(cols) ==
    SelectSeq(cols, LAMBDA c : StrLower(StrStrip(c)) = COMBINED)

\* steps 2 and 3 for the raw shape: melt on the combined column, then split
\* it into unit, sex, age, region
\* (width: the number of columns the split gave)
LongFromRaw(d, id) ==
    LET m == Melt(d, id)
    IN  [k \in 1..Len(m) |->
            LET f == SplitFields(m[k].id)
            IN  [unit |-> SplitField(m[k].id, f, 1), sex |-> SplitField(m[k].id, f, 2),
                 age |-> SplitField(m[k].id, f, 3), region |-> SplitField(m[k].id, f, 4),
                 year |-> m[k].var, value |-> m[k].value, width |-> Len(f)]]
RECURSIVE SplitWidthOf(_)
SplitWidthOf(long) ==
    IF long = <<>> THEN 0 ELSE Max(Head(long).width, SplitWidthOf(Tail(long)))

\* step 2 for the normalized shape: time renamed to year, geo copied to region
LongFromNormalized(d) ==
    LET cols == LowerColumns(d.columns)
    IN  [i \in 1..Len(d.rows) |->
            [unit |-> d.rows[i][ColIndex(cols, ColUnit)],
             sex |-> d.rows[i][ColIndex(cols, ColSex)],
             age |-> d.rows[i][ColIndex(cols, ColAge)],
             region |-> d.rows[i][ColIndex(cols, ColGeo)],
             year |-> d.rows[i][ColIndex(cols, ColTime)],
             value |-> d.rows[i][ColIndex(cols, ColValue)], width |-> 0]]

\* step 4: year and value to numbers, failures to NaN
ParseYearValue(r) ==
    [r EXCEPT !.year = F(ToNumeric(S(StrStrip(AsStr(r.year))))),
              !.value = F(ToNumeric(ExtractNumeric(AsStr(r.value))))]

\* step 5: dropna(subset=["year", "value"])
DropNa(long) == SelectSeq(long, LAMBDA r : ~IsNa(r.year) /\ ~IsNa(r.value))

\* step 5: astype(int) raises on a non-finite year
YearCastFails(long) == \E k \in 1..Len(long) : long[k].year.k = "inf"
CastYear(r) == [r EXCEPT !.year = I(TruncToInt(r.year))]

\* (mutant) step 5.1 that only strips the region
NormalizeRegionStripOnly(r) == [r EXCEPT !.region = S(StrStrip(AsStr(r.region)))]

\* step 5.1: region stripped, upper-cased, mapped through Region, upper-cased
NormalizeRegion(r) ==
    LET up == S(StrUpper(StrStrip(AsStr(r.region))))
    IN  [r EXCEPT !.region = S(StrUpper(AsStr(MapGeoToEnumValue(up))))]

NormColumnsIn == <<ColUnit, ColSex, ColAge, ColGeo, ColTime, ColValue>>
RawColumns == <<ColUnit, ColSex, ColAge, ColRegion, ColYear, ColValue>>
NormColumns == <<ColUnit, ColSex, ColAge, ColGeo, ColYear, ColValue>>

Failure(e) == [ok |-> FALSE, error |-> e, columns |-> <<>>, rows |-> <<>>]

\* (mutant) step 7 with region and age in each other's place
ProjectionRegionBeforeAge(sel, from_raw) ==
    [ok |-> TRUE, error |-> "",
     columns |-> IF from_raw THEN RawColumns ELSE NormColumns,
     rows |-> [k \in 1..Len(sel) |->
                  <<sel[k].unit, sel[k].sex, sel[k].region, sel[k].age,
                    sel[k].year, sel[k].value>>]]

\* step 7: the columns in order, under the schema of the input's shape
Projection(sel, from_raw) ==
    [ok |-> TRUE, error |-> "",
     columns |-> IF from_raw THEN RawColumns ELSE NormColumns,
     rows |-> [k \in 1..Len(sel) |->
                  <<sel[k].unit, sel[k].sex, sel[k].age, sel[k].region,
                    sel[k].year, sel[k].value>>]]

\* steps 5.1 and 6: the regions normalized, then the rows of the target
FilterRegion(rows, code) ==
    SelectSeq([k \in 1..Len(rows) |-> NormalizeRegion(rows[k])],
              LAMBDA r : r.region.s = code.value)

\* steps 5 (the casts) to 7 on the rows that dropna kept
CastAndFilter(kept, code, from_raw) ==
    IF YearCastFails(kept) THEN Failure("IntCastingNaNError")
    ELSE Projection(FilterRegion([k \in 1..Len(kept) |-> CastYear(kept[k])], code),
                    from_raw)

\* steps 4 to 7 of clean_data on the long frame
CleanLong(long, code, from_raw) ==
    CastAndFilter(DropNa([k \in 1..Len(long) |-> ParseYearValue(long[k])]), code, from_raw)

\* step 3 on the melted frame, which raises unless the split gives four
\* columns, then the rest
CleanMelted(long, code, from_raw) ==
    IF SplitWidthOf(long) # 4 THEN Failure("ValueError")
    ELSE CleanLong(long, code, from_raw)

\* the column melt keeps as identifier: the canonical combined column, else
\* the one the fallback found
MeltId(cols) == IF HasCol(cols, COMBINED) THEN COMBINED ELSE CombinedName(cols)[1]

\* (mutant) clean_data whose fallback forgets from_raw = True
CleanFrameFallbackNotRaw(d, code) ==
    IF ~HasCol(d.columns, COMBINED) /\ IsNormalized(d.columns)
    THEN CleanLong(LongFromNormalized(d), code, FALSE)
    ELSE IF ~HasCol(d.columns, COMBINED) /\ CombinedName(d.columns) = <<>>
    THEN Failure("KeyError")
    ELSE CleanMelted(LongFromRaw(d, MeltId(d.columns)), code, HasCol(d.columns, COMBINED))

\* steps 2 to 7 of clean_data on the frame whose columns are stripped
CleanFrame(d, code) ==
    IF ~HasCol(d.columns, COMBINED) /\ IsNormalized(d.columns)
    THEN CleanLong(LongFromNormalized(d), code, FALSE)
    ELSE IF ~HasCol(d.columns, COMBINED) /\ CombinedName(d.columns) = <<>>
    THEN Failure("KeyError")
    ELSE CleanMelted(LongFromRaw(d, MeltId(d.columns)), code, TRUE)

StripColumns(d) == [d EXCEPT !.columns = [i \in 1..Len(d.columns) |-> StrStrip(d.columns[i])]]

\* Region[country] on a name that is no member: KeyError(country), whose
\* message is the name and lists no code
RegionKeyError(alias) ==
    [ok |-> FALSE, error |-> "KeyError", columns |-> <<>>, rows |-> <<>>,
     offending |-> alias, valid |-> <<>>]

\* clean_data(df, export_country_code, country=alias)
CleanData(d, code, alias) ==
    IF alias # NoneText /\ ~IsRegionName(alias) THEN RegionKeyError(alias)
    ELSE CleanFrame(StripColumns(d),
                    IF alias # NoneText THEN RegionByName(alias) ELSE code)

RegionPT == RegionByName(<<"P", "T">>)

-----------------------------------------------------------------------------
(* readers.py: CSVReader.read, on the frame pd.read_csv returned *)

\* the value text with the missing marker ":" and the spaces removed
CleanValueText(c) == StrRemove(StrRemove(AsStr(c), ":"), " ")

\* (mutant) the value cleaning that turns an empty text into 0
CsvValueZeroForMissing(c) ==
    IF CleanValueText(c) = <<>> THEN F(Num(0)) ELSE F(ToNumeric(S(CleanValueText(c))))

\* out["value"] of CSVReader.read for one cell
CsvValue(c) == F(ToNumeric(S(CleanValueText(c))))

\* (mutant) the long frame with the time header stripped of whitespace
CsvLongTimeStripped(d) ==
    LET m == Melt(d, d.columns[1])
    IN  [k \in 1..Len(m) |->
            LET f == SplitFields(m[k].id)
            IN  <<SplitField(m[k].id, f, 1), SplitField(m[k].id, f, 2),
                  SplitField(m[k].id, f, 3), SplitField(m[k].id, f, 4),
                  S(StrStrip(AsStr(m[k].var))), CsvValue(m[k].value)>>]

\* the long frame of CSVReader.read before dropna: the first column split
\* into unit, sex, age, geo, the other columns melted into time and value
CsvLong(d) ==
    LET m == Melt(d, d.columns[1])
    IN  [k \in 1..Len(m) |->
            LET f == SplitFields(m[k].id)
            IN  <<SplitField(m[k].id, f, 1), SplitField(m[k].id, f, 2),
                  SplitField(m[k].id, f, 3), SplitField(m[k].id, f, 4),
                  S(AsStr(m[k].var)), CsvValue(m[k].value)>>]

\* CSVReader.read: assigning the four names fails when the first column
\* splits into more than four fields, melt fails when it splits into fewer
CsvRead(d) ==
    LET w == SplitWidth([i \in 1..Len(d.rows) |-> d.rows[i][1]])
    IN  IF w > 4 THEN Failure("ValueError")
        ELSE IF w < 4 THEN Failure("KeyError")
        ELSE [ok |-> TRUE, error |-> "",
              columns |-> NormColumnsIn,
              rows |-> SelectSeq(CsvLong(d), LAMBDA r : ~IsNa(r[6]))]

-----------------------------------------------------------------------------
(* The tables handed to clean_data *)

\* most data rows of an input table
MaxRows == 2

\* the shapes of input: the column headers as the caller wrote them, and
\* for every column the cells a data row may hold in it
TableShapes ==
    { \* the raw wide shape, canonical header
      [columns |-> <<COMBINED, <<"2", "0", "1", "9">>, <<"2", "0", "2", "0">>>>,
       cells |-> << {S(<<"Y", ",", "M", ",", "Y", "_", "L", "T", "1", ",", "P", "T">>), S(<<"Y", ",", "F", ",", "Y", "_", "G", "E", "8", "5", ",", "E", "S">>)},
                    {S(<<"7", "8", ".", "6">>), S(<<":">>)},
                    {S(<<"7", "9", ".", "1">>), S(<<" ", ":", " ">>)} >>],
      \* the raw wide shape, upper-case header with trailing spaces
      [columns |-> <<<<"U", "N", "I", "T", ",", "S", "E", "X", ",", "A", "G", "E", ",", "G", "E", "O", "\\", "T", "I", "M", "E", " ", " ">>, <<"2", "0", "1", "9", " ">>>>,
       cells |-> << {S(<<"Y", ",", "M", ",", "Y", "_", "L", "T", "1", ",", " ", "p", "t", " ">>), S(<<"Y", ",", "F", ",", "Y", "_", "L", "T", "1", ",", "E", "s">>), S(<<"Y", ",", "T", ",", "Y", "_", "L", "T", "1">>)},
                    {S(<<"7", "8", ".", "6", " ", "e">>), S(<<"N", "/", "A">>), S(<<"7", " ", "8">>)} >>],
      \* the raw wide shape, year headers that are no year
      [columns |-> <<COMBINED, <<"i", "n", "f">>, <<"x">>, <<"2", "0", "1", "9", ".", "5">>>>,
       cells |-> << {S(<<"Y", ",", "M", ",", "Y", "_", "L", "T", "1", ",", "P", "T">>), S(<<"Y", ",", "F", ",", "Y", "_", "L", "T", "1", ",", "E", "S">>)},
                    {S(<<"7", "8", ".", "6">>), S(<<":">>)}, {S(<<"8", "0">>)}, {S(<<"8", "1">>), S(<<":">>)} >>],
      \* the normalized shape, as a reader returns it
      [columns |-> <<ColUnit, ColSex, ColAge, ColGeo, ColTime, ColValue>>,
       cells |-> << {S(<<"Y">>)}, {S(<<"M">>)}, {S(<<"Y", "_", "L", "T", "1">>)},
                    {S(<<"P", "T">>), S(<<" ", "e", "s">>)},
                    {S(<<"2", "0", "1", "9">>), S(<<"x">>)},
                    {F(ParseFloat(<<"7", "8", ".", "6">>)), F(ParseFloat(<<"-", "2", ".", "5">>)), S(<<":">>)} >>],
      \* the normalized shape, upper-case headers and one more column
      [columns |-> <<<<"U", "N", "I", "T">>, <<"S", "E", "X">>, <<"A", "G", "E">>, <<"G", "E", "O", " ">>, <<"T", "I", "M", "E">>, <<"V", "A", "L", "U", "E">>, <<"f", "l", "a", "g">>>>,
       cells |-> << {S(<<"Y">>)}, {S(<<"F">>)}, {S(<<"Y", "_", "G", "E", "8", "5">>)},
                    {S(<<"P", "T">>), S(<<"E", "S">>)},
                    {I(2019), F(Inf(1))},
                    {F(ParseFloat(<<"8", "4", ".", "3">>)), NaNCell}, {S(<<"e">>)} >> ] }

\* the rows a shape allows: one cell per column
RECURSIVE RowsOver(_)
RowsOver(cells) ==
    IF cells = <<>> THEN {<<>>}
    ELSE {<<c>> \o r : c \in Head(cells), r \in RowsOver(Tail(cells))}
ShapeRows(sh) == RowsOver(sh.cells)

\* the targets: the default code, the default with an alias that overrides it,
\* and an alias that names no member
CleanTargets ==
    { [code |-> RegionPT, alias |-> NoneText],
      [code |-> RegionPT, alias |-> <<"E", "S">>],
      [code |-> RegionPT, alias |-> <<"e", "s">>] }

\* the tables of a shape: one to MaxRows data rows
ShapeTables(sh) ==
    UNION {{[columns |-> sh.columns, rows |-> rs] : rs \in [1..n -> ShapeRows(sh)]} :
              n \in 1..MaxRows}

InitClean ==
    /\ pc = "table"
    /\ \E sh \in TableShapes : df \in ShapeTables(sh)
    /\ \E t \in CleanTargets : country = t.alias /\ export_country_code = t.code
    /\ data = Null /\ path = Null
    /\ result = Null
    /\ IdleUnravel

\* clean_data raises on Region[country] before it touches the table
CleanRaisesInvalidRegion ==
    /\ pc = "table"
    /\ country # NoneText /\ ~IsRegionName(country)
    /\ result' = CleanData(df, export_country_code, country)
    /\ pc' = "clean_raised"
    /\ UNCHANGED <<regionVars, inputVars, unravelVars>>

\* clean_data returns the cleaned table, or raises after step 1
CleanCall ==
    /\ pc = "table"
    /\ country = NoneText \/ IsRegionName(country)
    /\ export_country_code' =
          IF country # NoneText THEN RegionByName(country) ELSE export_country_code
    /\ df' = StripColumns(df)
    /\ result' = CleanData(df, export_country_code, country)
    /\ pc' = IF result'.ok THEN "cleaned" ELSE "clean_raised"
    /\ UNCHANGED <<country, data, path, unravelVars>>

\* a file holds no column, beside its first, named like a column that
\* CSVReader.read creates
IsDelimitedFile(d) ==
    \A i \in 2..Len(d.columns) :
        d.columns[i] \notin {ColUnit, ColSex, ColAge, ColGeo, ColTime, ColValue}

\* CSVReader(path).read() on the table as the file's content
CsvReaderRead ==
    /\ pc = "table"
    /\ IsDelimitedFile(df)
    /\ result' = CsvRead(df)
    /\ pc' = IF result'.ok THEN "read" ELSE "read_raised"
    /\ UNCHANGED <<regionVars, inputVars, unravelVars>>

\* the table of a result, as a frame
TableOf(res) == [columns |-> res.columns, rows |-> res.rows]

\* load_data(path) followed by clean_data: the table the reader returned
\* is cleaned for the target
CleanLoaded ==
    /\ pc = "read"
    /\ export_country_code' =
          IF country # NoneText /\ IsRegionName(country)
          THEN RegionByName(country) ELSE export_country_code
    /\ result' = CleanData(TableOf(result), export_country_code, country)
    /\ pc' = IF result'.ok THEN "read_cleaned" ELSE "read_clean_raised"
    /\ UNCHANGED <<country, inputVars, unravelVars>>

NextClean == CleanRaisesInvalidRegion \/ CleanCall \/ CsvReaderRead \/ CleanLoaded

SpecClean == InitClean /\ [][NextClean]_vars

-----------------------------------------------------------------------------
(* EurostatJSONAdapter: the flat records reader *)

\* a JSON object is the sequence of its members [key, val], keys distinct
DictHas(d, k) == \E i \in 1..Len(d) : d[i].key = k
DictGet(d, k, default) ==
    IF DictHas(d, k) THEN d[CHOOSE i \in 1..Len(d) : d[i].key = k].val ELSE default
DictKeys(d) == [i \in 1..Len(d) |-> d[i].key]

\* the characters in code-point order, and sorted() over texts
Ascii == <<" ", "+", ",", "-", ".", "/">> \o Digits \o <<":">> \o UpperLetters
            \o <<"\\", "_">> \o LowerLetters
CharCode(c) == CHOOSE i \in 1..Len(Ascii) : Ascii[i] = c
RECURSIVE StrLess(_, _)
StrLess(a, b) ==
    IF b = <<>> THEN FALSE
    ELSE IF a = <<>> THEN TRUE
    ELSE IF Head(a) # Head(b) THEN CharCode(Head(a)) < CharCode(Head(b))
    ELSE StrLess(Tail(a), Tail(b))
RECURSIVE Sorted(_)
Sorted(names) ==
    IF names = {} THEN <<>>
    ELSE LET m == CHOOSE x \in names : \A y \in names : x = y \/ StrLess(x, y)
         IN  <<m>> \o Sorted(names \ {m})
Elems(s) == {s[i] : i \in 1..Len(s)}

\* pd.DataFrame(records): the columns are the keys in order of first
\* appearance, a record without a key holds NaN in its column
RECURSIVE RecordColumns(_)
RecordColumns(records) ==
    IF records = <<>> THEN <<>>
    ELSE LET init == RecordColumns(SubSeq(records, 1, Len(records) - 1))
         IN  init \o SelectSeq(DictKeys(records[Len(records)]), LAMBDA k : ~HasCol(init, k))
DataFrameOfRecords(records) ==
    LET cols == RecordColumns(records)
    IN  [columns |-> cols,
         rows |-> [r \in 1..Len(records) |->
                      [c \in 1..Len(cols) |-> DictGet(records[r], cols[c], NaNCell)]]]

\* (mutant) pick that returns the last candidate present in cols
PickLast(cols, candidates) ==
    IF \E i \in 1..Len(candidates) : HasCol(cols, candidates[i])
    THEN candidates[CHOOSE i \in 1..Len(candidates) :
                       /\ HasCol(cols, candidates[i])
                       /\ \A j \in (i + 1)..Len(candidates) : ~HasCol(cols, candidates[j])]
    ELSE NoneText

\* pick: the first candidate present in cols, else None
RECURSIVE Pick(_, _)
Pick(cols, candidates) ==
    IF candidates = <<>> THEN NoneText
    ELSE IF HasCol(cols, Head(candidates)) THEN Head(candidates)
    ELSE Pick(cols, Tail(candidates))

TimeCandidates == <<<<"t", "i", "m", "e">>, <<"y", "e", "a", "r">>, <<"d", "a", "t", "e">>>>
GeoCandidates == <<<<"g", "e", "o">>, <<"c", "o", "u", "n", "t", "r", "y">>, <<"r", "e", "g", "i", "o", "n">>, <<"g", "e", "o", "_", "c", "o", "d", "e">>, <<"g", "e", "o", "c", "o", "d", "e">>, <<"n", "u", "t", "s", "_", "c", "o", "d", "e">>>>
ValueCandidates == <<<<"v", "a", "l", "u", "e">>, <<"v", "a", "l", "u", "e", "s">>, <<"o", "b", "s", "_", "v", "a", "l", "u", "e">>, <<"o", "b", "s", "v", "a", "l", "u", "e">>, <<"l", "i", "f", "e", "_", "e", "x", "p", "e", "c", "t", "a", "n", "c", "y">>, <<"l", "i", "f", "e", "e", "x", "p", "e", "c", "t", "a", "n", "c", "y">>, <<"l", "e">>, <<"v", "a", "l">>>>

\* rename_map, as the pairs [key, val] of old and new name
RenameMap(time_col, geo_col, value_col) ==
    (IF time_col # ColTime THEN <<[key |-> time_col, val |-> ColTime]>> ELSE <<>>)
    \o (IF geo_col # NoneText /\ geo_col # ColGeo
        THEN <<[key |-> geo_col, val |-> ColGeo]>> ELSE <<>>)
    \o (IF value_col # NoneText /\ value_col # ColValue
        THEN <<[key |-> value_col, val |-> ColValue]>> ELSE <<>>)
\* df.rename(columns=rename_map)
Rename(d, rename_map) ==
    [d EXCEPT !.columns = [i \in 1..Len(d.columns) |-> DictGet(rename_map, d.columns[i], d.columns[i])]]

RemoveAt(s, i) == SubSeq(s, 1, i - 1) \o SubSeq(s, i + 1, Len(s))
\* (mutant) year dropped without filling time from it
MergeYearDropsOnly(d) ==
    IF HasCol(d.columns, ColYear) /\ HasCol(d.columns, ColTime)
    THEN [columns |-> RemoveAt(d.columns, ColIndex(d.columns, ColYear)),
          rows |-> [r \in 1..Len(d.rows) |->
                      RemoveAt(d.rows[r], ColIndex(d.columns, ColYear))]]
    ELSE d

\* time filled from year where it is missing, and year dropped
MergeYearIntoTime(d) ==
    IF HasCol(d.columns, ColYear) /\ HasCol(d.columns, ColTime)
    THEN LET y == ColIndex(d.columns, ColYear)
             t == ColIndex(d.columns, ColTime)
         IN  [columns |-> RemoveAt(d.columns, y),
              rows |-> [r \in 1..Len(d.rows) |->
                          RemoveAt([d.rows[r] EXCEPT ![t] = IF ~IsNa(@) THEN @ ELSE d.rows[r][y]], y)]]
    ELSE d

Needed == {ColUnit, ColSex, ColAge, ColGeo, ColTime, ColValue}

\* float(x) succeeds on the text
FloatParses(s) ==
    \/ ParseFloat(s).k # "nan"
    \/ StrLower(StrStrip(s)) \in {<<"n", "a", "n">>, <<"+", "n", "a", "n">>, <<"-", "n", "a", "n">>}
\* float(x) of a time cell, when it succeeds
TimeFloat(c) == ToNumeric(c)
\* _norm_time reaches int(v) with an infinite v: OverflowError
NormTimeOverflows(c) ==
    /\ c.t \in {"int", "float", "str"}
    /\ c.t = "str" => FloatParses(c.s)
    /\ TimeFloat(c).k = "inf"
\* _norm_time
NormTime(c) ==
    IF c.t \in {"int", "float", "str"}
    THEN IF c.t = "str" /\ ~FloatParses(c.s) THEN S(c.s)
         ELSE IF TimeFloat(c).k = "num" THEN S(FormatInt(TruncToInt(TimeFloat(c))))
         ELSE S(<<>>)
    ELSE S(AsStr(c))

\* the outcome of a read of a JSON file: the table, or the error raised
\* with what its message names
JsonMessage(text, keys, present) == [text |-> text, keys |-> keys, present |-> present]
JsonOk(d) ==
    [ok |-> TRUE, error |-> "", message |-> JsonMessage("", <<>>, <<>>),
     columns |-> d.columns, rows |-> d.rows]
JsonFailure(e, message) ==
    [ok |-> FALSE, error |-> e, message |-> message, columns |-> <<>>, rows |-> <<>>]

\* the rows of d whose cell in column name is not missing
DropNaIn(d, name) ==
    [d EXCEPT !.rows = SelectSeq(@, LAMBDA r : ~IsNa(r[ColIndex(d.columns, name)]))]

\* time through _norm_time, value through pd.to_numeric
NormalizeColumns(d) ==
    [d EXCEPT !.rows = [r \in 1..Len(d.rows) |->
        [d.rows[r] EXCEPT ![ColIndex(d.columns, ColTime)] = NormTime(@),
                          ![ColIndex(d.columns, ColValue)] = F(ToNumeric(@))]]]

\* the normalization of time and value, and the rows without value dropped
NormalizeRecords(d) ==
    IF \E r \in 1..Len(d.rows) : NormTimeOverflows(d.rows[r][ColIndex(d.columns, ColTime)])
    THEN JsonFailure("OverflowError", JsonMessage("cannot convert float infinity to integer", <<>>, <<>>))
    ELSE JsonOk(DropNaIn(NormalizeColumns(d), ColValue))

\* the error of the missing-keys check, the present keys left unnamed
MissingKeysOmitsPresent(d) ==
    JsonFailure("ValueError",
                JsonMessage("JSON missing keys", Sorted(Needed \ Elems(d.columns)), <<>>))

\* the error of the missing-keys check: the needed columns that are
\* missing, sorted, and the columns present, sorted
MissingKeys(d) ==
    JsonFailure("ValueError",
                JsonMessage("JSON missing keys", Sorted(Needed \ Elems(d.columns)),
                            Sorted(Elems(d.columns))))

\* the frame of the records, its columns lower-cased
LowerFrame(records) ==
    [columns |-> LowerColumns(DataFrameOfRecords(records).columns),
     rows |-> DataFrameOfRecords(records).rows]

\* the columns renamed by rename_map
RenameColumns(d) ==
    Rename(d, RenameMap(Pick(d.columns, TimeCandidates), Pick(d.columns, GeoCandidates),
                        Pick(d.columns, ValueCandidates)))

\* the needed-keys check on the renamed frame, then the normalization
ReadRenamed(d) ==
    IF Needed \ Elems(d.columns) # {} THEN MissingKeys(d) ELSE NormalizeRecords(d)

\* the time-like check on the lower-cased frame, then the rest
ReadLowered(d) ==
    IF Pick(d.columns, TimeCandidates) = NoneText
    THEN JsonFailure("ValueError",
                     JsonMessage("JSON missing a time-like key among", TimeCandidates, <<>>))
    ELSE ReadRenamed(MergeYearIntoTime(RenameColumns(d)))

\* _read_records_list
ReadRecordsList(records) == ReadLowered(LowerFrame(records))

-----------------------------------------------------------------------------
(* EurostatJSONAdapter: the compact reader *)

\* the `dimension` object is the sequence of its members
\* [key, index, label]: index is the number of members of category.index
\* (0 when absent or empty), label the members [key, val] of category.label

\* int(k) succeeds on the text: digits, a sign before and spaces around
IntParses(s) ==
    LET t == StrStrip(s)
        u == IF Len(t) >= 1 /\ t[1] \in {"+", "-"} THEN Tail(t) ELSE t
    IN  u # <<>> /\ \A i \in 1..Len(u) : IsDigit(u[i])
ParseInt(s) ==
    LET t == StrStrip(s)
        u == IF Len(t) >= 1 /\ t[1] \in {"+", "-"} THEN Tail(t) ELSE t
    IN  IF t[1] = "-" THEN -DigitsToNat(u) ELSE DigitsToNat(u)

EmptyBlock == [key |-> <<>>, index |-> 0, label |-> <<>>]
\* dim.get(key) or dim.get(key.upper()), {} when neither is there
BlockOf(dim, key) ==
    IF \E i \in 1..Len(dim) : dim[i].key = key
    THEN dim[CHOOSE i \in 1..Len(dim) : dim[i].key = key]
    ELSE IF \E i \in 1..Len(dim) : dim[i].key = StrUpper(key)
    THEN dim[CHOOSE i \in 1..Len(dim) : dim[i].key = StrUpper(key)]
    ELSE EmptyBlock

\* a label key on which int(k) raises
LabelKeyFails(dim, key) ==
    LET lab == BlockOf(dim, key).label
    IN  \E i \in 1..Len(lab) : ~IntParses(lab[i].key)
\* _labels_from_dimension: the members [key, val] of the index->label map,
\* a later member of the same index replacing an earlier one
LabelsFromDimension(dim, key) ==
    LET lab == BlockOf(dim, key).label
        last(i) == \A j \in (i + 1)..Len(lab) : ParseInt(lab[j].key) # ParseInt(lab[i].key)
        keep == {i \in 1..Len(lab) : last(i)}
        kept == SelectSeq([i \in 1..Len(lab) |-> i], LAMBDA i : i \in keep)
    IN  [n \in 1..Len(kept) |-> [key |-> ParseInt(lab[kept[n]].key), val |-> AsStr(lab[kept[n]].val)]]

CanonicalOrder == <<ColUnit, ColSex, ColAge, ColGeo, ColTime>>
\* _dimension_order
DimensionOrder(dim) ==
    LET found == SelectSeq(CanonicalOrder, LAMBDA k : \E i \in 1..Len(dim) : dim[i].key = k)
    IN  IF found # <<>> THEN found ELSE CanonicalOrder

\* maps[k] of _build_maps_and_bases
MapOf(dim, key) ==
    LET labels == LabelsFromDimension(dim, key)
    IN  IF labels # <<>> THEN labels ELSE <<[key |-> 0, val |-> <<>>]>>
\* _dimension_sizes
DimensionSizes(dim, order) ==
    [n \in 1..Len(order) |->
        LET idx == BlockOf(dim, order[n]).index
        IN  IF idx > 0 THEN idx ELSE Len(MapOf(dim, order[n]))]

\* _rows_from_values: one record per member of `value` whose key is an
\* integer, in the order of the members
RowsFromValues(values, dim, order, sizes) ==
    LET ints == SelectSeq(values, LAMBDA m : IntParses(m.key))
    IN  [n \in 1..Len(ints) |->
            LET coord == Unravel(ParseInt(ints[n].key), sizes)
            IN  [c \in 1..Len(order) |->
                    [key |-> order[c],
                     val |-> S(DictGet(MapOf(dim, order[c]), coord[c], FormatInt(coord[c])))]]
                \o <<[key |-> ColValue, val |-> ints[n].val]>>]

\* the columns added empty when the rows do not carry them
WithRequiredColumns(d) ==
    LET absent == SelectSeq(CanonicalOrder, LAMBDA k : ~HasCol(d.columns, k))
    IN  [columns |-> d.columns \o absent,
         rows |-> [r \in 1..Len(d.rows) |->
                      d.rows[r] \o [i \in 1..Len(absent) |-> S(<<>>)]]]

\* time as text, value through pd.to_numeric
NormalizeCompact(d) ==
    [d EXCEPT !.rows = [r \in 1..Len(d.rows) |->
        [d.rows[r] EXCEPT ![ColIndex(d.columns, ColTime)] = S(AsStr(@)),
                          ![ColIndex(d.columns, ColValue)] = F(ToNumeric(@))]]]

\* the frame of the rows with the required columns: df["value"] raises
\* KeyError when no row gave the column
CompactTable(d) ==
    IF ~HasCol(d.columns, ColValue)
    THEN JsonFailure("KeyError", JsonMessage("value", <<>>, <<>>))
    ELSE JsonOk(DropNaIn(NormalizeCompact(d), ColValue))

\* _build_maps_and_bases raises when int(k) fails on a label key
BuildMapsFails(dim) == \E k \in Elems(DimensionOrder(dim)) : LabelKeyFails(dim, k)

\* _read_compact_dict
ReadCompactDict(dim, values) ==
    IF BuildMapsFails(dim)
    THEN JsonFailure("ValueError", JsonMessage("invalid literal for int()", <<>>, <<>>))
    ELSE CompactTable(WithRequiredColumns(DataFrameOfRecords(
             RowsFromValues(values, dim, DimensionOrder(dim),
                            DimensionSizes(dim, DimensionOrder(dim))))))

\* the JSON document: its top-level kind ("list", "dict" or "scalar"), the
\* keys of a top-level object, and what it holds
JsonList(records) ==
    [kind |-> "list", keys |-> {}, records |-> records, dimension |-> <<>>, value |-> <<>>]
JsonDict(keys, dim, values) ==
    [kind |-> "dict", keys |-> keys, records |-> <<>>, dimension |-> dim, value |-> values]
JsonScalar == [kind |-> "scalar", keys |-> {}, records |-> <<>>, dimension |-> <<>>, value |-> <<>>]

\* (mutant) an object with either field taken for the compact encoding
IsCompactEitherField(d) == d.kind = "dict" /\ ("dimension" \in d.keys \/ "value" \in d.keys)

\* isinstance(data, dict) and "dimension" in data and "value" in data
IsCompact(d) == d.kind = "dict" /\ "dimension" \in d.keys /\ "value" \in d.keys

-----------------------------------------------------------------------------
(* The JSON documents handed to EurostatJSONAdapter.read *)

\* most records of a flat document, most members of a compact `value`
MaxRecords == 2
MaxValues == 2

\* in a shape of records: the record written without this key
Absent == [t |-> "absent", s |-> <<>>, k |-> "", v |-> 0]

\* the shapes of flat records: the keys as written, and for every key the
\* values a record may hold under it
RecordShapes ==
    { \* the six fields under their own names
      [keys |-> <<<<"u", "n", "i", "t">>, <<"s", "e", "x">>, <<"a", "g", "e">>, <<"g", "e", "o">>, <<"t", "i", "m", "e">>, <<"v", "a", "l", "u", "e">>>>,
       cells |-> << {S(<<"Y">>)}, {S(<<"M">>)}, {S(<<"Y", "_", "L", "T", "1">>)}, {S(<<"P", "T">>)},
                    {I(2019), S(<<"2", "0", "1", "9", ".", "5">>), S(<<"x">>)},
                    {F(ParseFloat(<<"7", "8", ".", "6">>)), S(<<":">>), S(<<" ", "8", "4", ".", "3", " ">>)} >>],
      \* synonyms for geo, time and value, and one more field
      [keys |-> <<<<"u", "n", "i", "t">>, <<"s", "e", "x">>, <<"a", "g", "e">>, <<"c", "o", "u", "n", "t", "r", "y">>, <<"y", "e", "a", "r">>, <<"o", "b", "s", "_", "v", "a", "l", "u", "e">>, <<"f", "l", "a", "g">>>>,
       cells |-> << {S(<<"Y">>)}, {S(<<"F">>)}, {S(<<"Y", "_", "L", "T", "1">>)}, {S(<<"P", "T">>)}, {I(2019)},
                    {F(ParseFloat(<<"8", "4", ".", "3">>)), NoneCell}, {S(<<"e">>), Absent} >>],
      \* both year and time
      [keys |-> <<<<"u", "n", "i", "t">>, <<"s", "e", "x">>, <<"a", "g", "e">>, <<"g", "e", "o">>, <<"y", "e", "a", "r">>, <<"t", "i", "m", "e">>, <<"v", "a", "l", "u", "e">>>>,
       cells |-> << {S(<<"Y">>)}, {S(<<"M">>)}, {S(<<"Y", "_", "L", "T", "1">>)}, {S(<<"P", "T">>)},
                    {I(2018), Absent}, {S(<<"2", "0", "1", "9">>), NoneCell, Absent},
                    {F(ParseFloat(<<"7", "8", ".", "4">>)), S(<<":">>)} >>],
      \* date alone for the time
      [keys |-> <<<<"u", "n", "i", "t">>, <<"s", "e", "x">>, <<"a", "g", "e">>, <<"g", "e", "o">>, <<"D", "a", "t", "e">>, <<"v", "a", "l", "u", "e">>>>,
       cells |-> << {S(<<"Y">>)}, {S(<<"M">>)}, {S(<<"Y", "_", "L", "T", "1">>)}, {S(<<"P", "T">>)},
                    {S(<<"2", "0", "2", "0">>), F(ParseFloat(<<"2", "0", "2", "1">>))},
                    {F(ParseFloat(<<"7", "8", ".", "4">>))} >>],
      \* a field and a synonym of it side by side
      [keys |-> <<<<"u", "n", "i", "t">>, <<"s", "e", "x">>, <<"a", "g", "e">>, <<"g", "e", "o">>, <<"c", "o", "u", "n", "t", "r", "y">>, <<"t", "i", "m", "e">>, <<"d", "a", "t", "e">>, <<"v", "a", "l", "u", "e">>, <<"v", "a", "l">>>>,
       cells |-> << {S(<<"Y">>)}, {S(<<"M">>)}, {S(<<"Y", "_", "L", "T", "1">>)}, {S(<<"P", "T">>)}, {S(<<"E", "S">>)},
                    {S(<<"2", "0", "1", "9">>)}, {S(<<"2", "0", "2", "0">>)}, {F(ParseFloat(<<"7", "8", ".", "6">>)), S(<<":">>)},
                    {F(ParseFloat(<<"1", ".", "5">>))} >>],
      \* keys in upper case, a time that is infinite
      [keys |-> <<<<"U", "N", "I", "T">>, <<"S", "E", "X">>, <<"A", "G", "E">>, <<"G", "E", "O">>, <<"T", "I", "M", "E">>, <<"V", "A", "L", "U", "E">>>>,
       cells |-> << {S(<<"Y">>)}, {S(<<"M">>)}, {S(<<"Y", "_", "L", "T", "1">>)}, {S(<<"P", "T">>)},
                    {S(<<"i", "n", "f">>), I(2020)}, {F(ParseFloat(<<"7", "8", ".", "6">>))} >>] }
    \cup
    \* the six fields but one, for each of the six
    { [keys |-> SelectSeq(<<<<"u", "n", "i", "t">>, <<"s", "e", "x">>, <<"a", "g", "e">>, <<"g", "e", "o">>, <<"t", "i", "m", "e">>, <<"v", "a", "l", "u", "e">>>>, LAMBDA k : k # n),
       cells |-> [i \in 1..5 |-> {S(<<"1">>)}]] :
         n \in {<<"u", "n", "i", "t">>, <<"s", "e", "x">>, <<"a", "g", "e">>, <<"g", "e", "o">>, <<"t", "i", "m", "e">>, <<"v", "a", "l", "u", "e">>} }

\* the record of a row of a shape: the keys whose value is not Absent
RecordOf(keys, row) ==
    LET at == SelectSeq([i \in 1..Len(keys) |-> i], LAMBDA i : row[i] # Absent)
    IN  [n \in 1..Len(at) |-> [key |-> keys[at[n]], val |-> row[at[n]]]]
ShapeRecords(sh) == {RecordOf(sh.keys, r) : r \in RowsOver(sh.cells)}

\* the flat documents: no record, or one to MaxRecords records of a shape
FlatDocuments ==
    {JsonList(<<>>)}
    \cup UNION {UNION {{JsonList(rs) : rs \in [1..n -> ShapeRecords(sh)]} : n \in 1..MaxRecords} :
                   sh \in RecordShapes}

Block(key, idx, label) ==
    [key |-> key, index |-> idx,
     label |-> [i \in 1..Len(label) |-> [key |-> label[i][1], val |-> label[i][2]]]]

\* the `dimension` objects
Dimensions ==
    { \* the five dimensions under their lower-case names
      << Block(<<"u", "n", "i", "t">>, 0, << <<<<"0">>, S(<<"Y">>)>> >>),
         Block(<<"s", "e", "x">>, 2, << <<<<"0">>, S(<<"M">>)>>, <<<<"1">>, S(<<"F">>)>> >>),
         Block(<<"a", "g", "e">>, 0, << <<<<"0">>, S(<<"Y", "_", "L", "T", "1">>)>> >>),
         Block(<<"g", "e", "o">>, 2, << <<<<"0">>, S(<<"P", "T">>)>>, <<<<"1">>, S(<<"E", "S">>)>> >>),
         Block(<<"t", "i", "m", "e">>, 2, << <<<<"0">>, S(<<"2", "0", "1", "9">>)>>, <<<<"1">>, S(<<"2", "0", "2", "0">>)>> >>) >>,
      \* two dimensions, time written before geo
      << Block(<<"t", "i", "m", "e">>, 0, << <<<<"0">>, S(<<"2", "0", "1", "9">>)>>, <<<<"1">>, S(<<"2", "0", "2", "0">>)>> >>),
         Block(<<"g", "e", "o">>, 0, << <<<<"0">>, S(<<"P", "T">>)>>, <<<<"1">>, S(<<"E", "S">>)>>, <<<<"2">>, S(<<"F", "R">>)>> >>) >>,
      \* upper-case names
      << Block(<<"G", "E", "O">>, 2, << <<<<"0">>, S(<<"P", "T">>)>>, <<<<"1">>, S(<<"E", "S">>)>> >>),
         Block(<<"T", "I", "M", "E">>, 0, << <<<<"0">>, S(<<"2", "0", "1", "9">>)>>, <<<<"1">>, S(<<"2", "0", "2", "0">>)>> >>) >>,
      \* one lower-case and one upper-case name
      << Block(<<"g", "e", "o">>, 0, << <<<<"0">>, S(<<"P", "T">>)>>, <<<<"1">>, S(<<"E", "S">>)>> >>),
         Block(<<"T", "I", "M", "E">>, 0, << <<<<"0">>, S(<<"2", "0", "1", "9">>)>>, <<<<"1">>, S(<<"2", "0", "2", "0">>)>> >>) >>,
      \* no dimension
      << >>,
      \* more positions than labels, a label that is a number
      << Block(<<"g", "e", "o">>, 3, << <<<<"0">>, S(<<"P", "T">>)>> >>),
         Block(<<"t", "i", "m", "e">>, 0, << <<<<" ", "0", " ">>, I(2019)>>, <<<<"1">>, S(<<"2", "0", "2", "0">>)>> >>) >>,
      \* a label key that is no integer
      << Block(<<"g", "e", "o">>, 0, << <<<<"a">>, S(<<"P", "T">>)>> >>) >> }

ValueKeys == {<<"0">>, <<"1">>, <<"3">>, <<"x">>, <<"-", "1">>}
ValueCells == {F(ParseFloat(<<"7", "8", ".", "6">>)), S(<<":">>)}
\* the `value` objects: up to MaxValues members, keys distinct
ValueObjects ==
    {<<>>}
    \cup UNION {{vs \in [1..n -> [key : ValueKeys, val : ValueCells]] :
                     \A i \in 1..n, j \in 1..n : vs[i].key = vs[j].key => i = j} :
                   n \in 1..MaxValues}

CompactDocuments ==
    {JsonDict({"dimension", "value"}, dim, vs) : dim \in Dimensions, vs \in ValueObjects}
\* a scalar, and the objects that lack `dimension` or `value`
OtherDocuments ==
    {JsonScalar}
    \cup {JsonDict(ks, <<>>, <<>>) : ks \in {{}, {"dimension"}, {"value"}}}

InitJson ==
    /\ pc = "json"
    /\ data \in FlatDocuments \cup CompactDocuments \cup OtherDocuments
    /\ df = Null /\ path = Null
    /\ IdleRegion
    /\ IdleUnravel
    /\ result = Null

\* read on an array: _read_records_list returns or raises
JsonReadRecordsList ==
    /\ pc = "json"
    /\ data.kind = "list"
    /\ result' = ReadRecordsList(data.records)
    /\ pc' = IF result'.ok THEN "json_read" ELSE "json_raised"
    /\ UNCHANGED <<regionVars, inputVars, unravelVars>>

\* read on an object with `dimension` and `value`: _read_compact_dict
\* returns or raises
JsonReadCompactDict ==
    /\ pc = "json"
    /\ data.kind # "list" /\ IsCompact(data)
    /\ result' = ReadCompactDict(data.dimension, data.value)
    /\ pc' = IF result'.ok THEN "json_read" ELSE "json_raised"
    /\ UNCHANGED <<regionVars, inputVars, unravelVars>>

\* read on anything else raises
JsonReadUnsupported ==
    /\ pc = "json"
    /\ data.kind # "list" /\ ~IsCompact(data)
    /\ result' = JsonFailure("ValueError", JsonMessage("Unsupported JSON shape.", <<>>, <<>>))
    /\ pc' = "json_raised"
    /\ UNCHANGED <<regionVars, inputVars, unravelVars>>

NextJson == JsonReadRecordsList \/ JsonReadCompactDict \/ JsonReadUnsupported

SpecJson == InitJson /\ [][NextJson]_vars

-----------------------------------------------------------------------------
(* What the claims say of clean_data and CSVReader.read, stated on the      *)
(* caller's table: its data rows i and, for the wide shape, its year       *)
(* columns j.                                                              *)

\* the column whose header is n once stripped and lower-cased (0: none)
NamedAt(d, n) ==
    IF \E i \in 1..Len(d.columns) : StrLower(StrStrip(d.columns[i])) = n
    THEN CHOOSE i \in 1..Len(d.columns) : StrLower(StrStrip(d.columns[i])) = n
    ELSE 0
\* the input holds the combined column, in any letter case
IsRawInput(d) == NamedAt(d, COMBINED) # 0
\* the input holds the six normalized columns, in any letter case
IsNormalizedInput(d) ==
    /\ ~IsRawInput(d)
    /\ \A n \in NormalizedNames : NamedAt(d, n) # 0

FieldOf(f, n) == IF n <= Len(f) THEN S(f[n]) ELSE NoneCell

\* a reshaped row: its place, unit, sex, age, region, year and value
\* (parsed) and the cell the value came from
ReshapedRow(i, j, unit, sex, age, region, yeartext, cell) ==
    [i |-> i, j |-> j, unit |-> unit, sex |-> sex, age |-> age,
     region |-> StrUpper(StrStrip(AsStr(region))),
     year |-> ParseFloat(StrStrip(yeartext)),
     value |-> ToNumeric(ExtractNumeric(AsStr(cell))),
     cell |-> cell]

\* the reshaped rows of the table: one per (data row, year column) for the
\* wide shape, one per data row for the normalized shape
Reshaped(d) ==
    IF IsRawInput(d)
    THEN LET ci == NamedAt(d, COMBINED)
         IN  {LET f == StrSplit(d.rows[c[1]][ci].s, ",")
              IN  ReshapedRow(c[1], c[2], FieldOf(f, 1), FieldOf(f, 2), FieldOf(f, 3),
                              FieldOf(f, 4), d.columns[c[2]], d.rows[c[1]][c[2]]) :
                 c \in (1..Len(d.rows)) \X ((1..Len(d.columns)) \ {ci})}
    ELSE LET u == NamedAt(d, ColUnit)
             s == NamedAt(d, ColSex)
             a == NamedAt(d, ColAge)
             g == NamedAt(d, ColGeo)
             t == NamedAt(d, ColTime)
             v == NamedAt(d, ColValue)
         IN  {ReshapedRow(i, 0, d.rows[i][u], d.rows[i][s], d.rows[i][a], d.rows[i][g],
                          AsStr(d.rows[i][t]), d.rows[i][v]) : i \in 1..Len(d.rows)}

\* the year and the value of the reshaped row both parse
Parses(c) == c.year.k = "num" /\ c.value.k = "num"
\* the output row it becomes under the region code
OutRow(c, code) ==
    <<c.unit, c.sex, c.age, S(code), I(TruncToInt(c.year)), F(c.value)>>

Count(rows, r) == Cardinality({k \in 1..Len(rows) : rows[k] = r})

\* C1: the table clean returns holds exactly the reshaped rows whose year
\* and value parse and whose normalized region is the target's code: every
\* row returned is such a row of that region, every such row is returned,
\* and there are as many rows as such reshaped rows.
C1_ExactRegionFilter ==
    pc = "cleaned" =>
        LET code == export_country_code.value
            good == {c \in Reshaped(df) : Parses(c) /\ c.region = code}
        IN  /\ \A k \in 1..Len(result.rows) :
                   /\ result.rows[k][4] = S(code)
                   /\ \E c \in good : result.rows[k] = OutRow(c, code)
            /\ \A c \in good :
                   Count(result.rows, OutRow(c, code))
                     = Cardinality({c2 \in good : OutRow(c2, code) = OutRow(c, code)})
            /\ Len(result.rows) = Cardinality(good)

\* a table with a row of the target region written " pt " and a valid row
\* of another region was cleaned: the first is returned, the second is not
C1_Witness ==
    /\ pc = "cleaned"
    /\ Len(result.rows) = 1
    /\ Len(df.rows) = 2
    /\ df.rows[1][1] = S(<<"Y", ",", "M", ",", "Y", "_", "L", "T", "1", ",", " ", "p", "t", " ">>)
    /\ \E c \in Reshaped(df) : Parses(c) /\ c.region = export_country_code.value
    /\ \E c \in Reshaped(df) : Parses(c) /\ c.region # export_country_code.value

\* C2: a raw-shaped input (combined column in any letter case) is returned
\* with the columns unit, sex, age, region, year, value; a pre-normalized
\* input with the columns unit, sex, age, geo, year, value, geo being the
\* target's code in every row.
C2_SchemaDuality ==
    pc = "cleaned" =>
        /\ IsRawInput(df) => result.columns = <<ColUnit, ColSex, ColAge, ColRegion, ColYear, ColValue>>
        /\ IsNormalizedInput(df) =>
              /\ result.columns = <<ColUnit, ColSex, ColAge, ColGeo, ColYear, ColValue>>
              /\ \A k \in 1..Len(result.rows) : result.rows[k][4] = S(export_country_code.value)
        /\ \A k \in 1..Len(result.rows) : Len(result.rows[k]) = Len(result.columns)

\* a pre-normalized table with upper-case headers was cleaned to a row
\* under the geo schema
C2_Witness ==
    /\ pc = "cleaned"
    /\ IsNormalizedInput(df)
    /\ df.columns[1] = <<"U", "N", "I", "T">>
    /\ Len(result.rows) >= 1
    /\ result.columns[4] = ColGeo

\* C3 as stated: clean, given a resolvable region and a table of a known
\* shape whose combined cells hold four fields, never raises over a year or
\* value cell: it returns a table whose rows carry an integer year and a
\* number as value.
C3_UnparseableNeverRaises ==
    ( /\ pc \in {"cleaned", "clean_raised"}
      /\ country = NoneText \/ IsRegionName(country)
      /\ IsRawInput(df) \/ IsNormalizedInput(df)
      /\ IsRawInput(df) =>
            \A i \in 1..Len(df.rows) :
                Len(StrSplit(df.rows[i][NamedAt(df, COMBINED)].s, ",")) = 4 )
    => /\ pc = "cleaned"
       /\ \A k \in 1..Len(result.rows) :
              /\ result.rows[k][5].t = "int"
              /\ result.rows[k][6].t = "float" /\ result.rows[k][6].k = "num"

\* the cell is the missing-value marker, spaces around it or not
IsMarkerCell(c) == c.t = "str" /\ StrStrip(c.s) = <<":">>
\* the cell is plainly a number
IsNumberCell(c) == ParseFloat(AsStr(c)).k = "num"

\* the value text without the marker and without spaces
MarkerFree(c) == SelectSeq(AsStr(c), LAMBDA x : x \notin {":", " "})

\* the candidate rows of a delimited file: one per (data row, year
\* column), with the row the reader makes of it and the cell it came from
FileReshaped(d) ==
    {LET f == StrSplit(d.rows[c[1]][1].s, ",")
         cell == d.rows[c[1]][c[2]]
     IN  [i |-> c[1], j |-> c[2], cell |-> cell,
          row |-> <<FieldOf(f, 1), FieldOf(f, 2), FieldOf(f, 3), FieldOf(f, 4),
                    S(d.columns[c[2]]), F(ParseFloat(MarkerFree(cell)))>>] :
        c \in (1..Len(d.rows)) \X (2..Len(d.columns))}

SameKey(r1, r2) == SubSeq(r1, 1, 5) = SubSeq(r2, 1, 5)
CountKey(rows, r) == Cardinality({k \in 1..Len(rows) : SameKey(rows[k], r)})

\* C4: a cell that is the marker ":" (spaces around it or not) yields no
\* row, neither from the Delimited Reader nor from clean on raw-shaped
\* input: no returned row has a null value, the rows returned for a key are
\* no more than the cells of that key that are not the marker, and a number
\* in another cell of the marker's data row still yields its row.
C4_MarkerDropped ==
    /\ pc = "read" =>
          LET cands == FileReshaped(df)
          IN  /\ \A k \in 1..Len(result.rows) :
                     /\ ~IsNa(result.rows[k][6])
                     /\ CountKey(result.rows, result.rows[k])
                          <= Cardinality({c \in cands : /\ ~IsMarkerCell(c.cell)
                                                        /\ SameKey(c.row, result.rows[k])})
              /\ \A c \in cands, c2 \in cands :
                     (c.i = c2.i /\ IsMarkerCell(c.cell) /\ IsNumberCell(c2.cell))
                        => Count(result.rows, c2.row) >= 1
    /\ (pc = "cleaned" /\ IsRawInput(df)) =>
          LET code == export_country_code.value
              mine == {c \in Reshaped(df) : c.year.k = "num" /\ c.region = code}
          IN  /\ \A k \in 1..Len(result.rows) :
                     /\ ~IsNa(result.rows[k][6])
                     /\ CountKey(result.rows, result.rows[k])
                          <= Cardinality({c \in mine : /\ ~IsMarkerCell(c.cell)
                                                       /\ SameKey(OutRow(c, code), result.rows[k])})
              /\ \A c \in mine, c2 \in mine :
                     (c.i = c2.i /\ IsMarkerCell(c.cell) /\ IsNumberCell(c2.cell))
                       => Count(result.rows, OutRow(c2, code)) >= 1

\* a raw table whose target-region row holds the number 78.6 next to the
\* marker " : " was cleaned to the one row of the number
C4_Witness ==
    /\ pc = "cleaned"
    /\ IsRawInput(df)
    /\ Len(df.rows) = 1
    /\ df.rows[1][2] = S(<<"7", "8", ".", "6">>)
    /\ df.rows[1][3] = S(<<" ", ":", " ">>)
    /\ Len(result.rows) = 1
    /\ result.rows[1][6] = F(ParseFloat(<<"7", "8", ".", "6">>))

\* C7: the Delimited Reader forms one candidate row per (data row, year
\* column), holding the four fields of the row's combined cell, the column
\* header as text and the cell; it returns exactly the candidates whose
\* value, the marker and the spaces removed, parses as a number.
C7_Unpivot ==
    pc = "read" =>
        LET cands == FileReshaped(df)
            good == {c \in cands : c.row[6].k # "nan"}
        IN  /\ Cardinality(cands) = Len(df.rows) * (Len(df.columns) - 1)
            /\ result.columns = <<ColUnit, ColSex, ColAge, ColGeo, ColTime, ColValue>>
            /\ \A k \in 1..Len(result.rows) :
                   /\ result.rows[k][5].t = "str"
                   /\ \E c \in good : result.rows[k] = c.row
            /\ \A c \in good :
                   Count(result.rows, c.row) = Cardinality({c2 \in good : c2.row = c.row})
            /\ Len(result.rows) = Cardinality(good)

\* a file of two data rows and two year columns with one marker cell was
\* read into three rows
C7_Witness ==
    /\ pc = "read"
    /\ Len(df.rows) = 2 /\ Len(df.columns) = 3
    /\ Cardinality({c \in FileReshaped(df) : IsMarkerCell(c.cell)}) = 1
    /\ Len(result.rows) = 3

-----------------------------------------------------------------------------
(* What the claims say of the JSON readers *)

\* the keys of the records of a flat document, lower-cased
LowerKeys(d) ==
    {StrLower(k) : k \in UNION {Elems(DictKeys(d.records[r])) : r \in 1..Len(d.records)}}

\* the synonym that stands for a field: the first of the priority list
\* among the keys, if any
Chosen(keys, candidates) ==
    {candidates[i] : i \in {i \in 1..Len(candidates) :
                              /\ candidates[i] \in keys
                              /\ \A j \in 1..(i - 1) : candidates[j] \notin keys}}

\* the fields of a flat document after aliasing: the chosen synonyms stand
\* for time, geo and value, and year goes when time is there with it
AliasedFields(d) ==
    LET keys == LowerKeys(d)
        t == Chosen(keys, TimeCandidates)
        g == Chosen(keys, GeoCandidates)
        v == Chosen(keys, ValueCandidates)
        renamed == (keys \ (t \cup g \cup v))
                      \cup (IF t # {} THEN {ColTime} ELSE {})
                      \cup (IF g # {} THEN {ColGeo} ELSE {})
                      \cup (IF v # {} THEN {ColValue} ELSE {})
    IN  IF ColTime \in renamed THEN renamed \ {ColYear} ELSE renamed
\* the required fields a flat document lacks after aliasing
Lacking(d) == Needed \ AliasedFields(d)
HasTimeLike(d) == Chosen(LowerKeys(d), TimeCandidates) # {}

FlatReadDone == pc \in {"json_read", "json_raised"} /\ data.kind = "list"

\* C5 as stated: every table a reader returns (delimited, flat JSON
\* records, compact JSON) has exactly the six columns unit, sex, age, geo,
\* time, value and no other.
C5_ExactlySixColumns ==
    pc \in {"read", "json_read"} =>
        /\ Len(result.columns) = 6
        /\ Elems(result.columns) = Needed
        /\ \A k \in 1..Len(result.rows) : Len(result.rows[k]) = 6

RecordField(rec, name) ==
    IF \E i \in 1..Len(rec) : StrLower(rec[i].key) = name
    THEN rec[CHOOSE i \in 1..Len(rec) : StrLower(rec[i].key) = name].val
    ELSE NaNCell
\* the key that stands for a field in a flat document (NoneText: none)
ChosenKey(d, candidates) ==
    IF Chosen(LowerKeys(d), candidates) = {} THEN NoneText
    ELSE CHOOSE k \in Chosen(LowerKeys(d), candidates) : TRUE
\* the records of a flat document whose value is a number: those the
\* reader keeps, in their order
KeptRecords(d) ==
    SelectSeq(d.records,
              LAMBDA rec : ToNumeric(RecordField(rec, ChosenKey(d, ValueCandidates))).k # "nan")
\* the cell of a returned row under a column
OutCell(res, k, name) == res.rows[k][ColIndex(res.columns, name)]

\* C11: in a table the flat reader returns for records that carry a time
\* and a year field, the year column is gone and each row's time is the
\* record's own time when it holds one (not null), else its year, rendered
\* as the reader renders a time; records with only year, or only date, have
\* that field as their time.
C11_TimeOverYear ==
    (pc = "json_read" /\ data.kind = "list") =>
        LET kept == KeptRecords(data)
            keys == LowerKeys(data)
        IN  /\ Len(result.rows) = Len(kept)
            /\ (ColTime \in keys /\ ColYear \in keys) =>
                  /\ ~HasCol(result.columns, ColYear)
                  /\ \A k \in 1..Len(kept) :
                        OutCell(result, k, ColTime) =
                           NormTime(IF ~IsNa(RecordField(kept[k], ColTime))
                                    THEN RecordField(kept[k], ColTime)
                                    ELSE RecordField(kept[k], ColYear))
            /\ (ColTime \notin keys /\ ColYear \in keys) =>
                  /\ ~HasCol(result.columns, ColYear)
                  /\ \A k \in 1..Len(kept) :
                        OutCell(result, k, ColTime) = NormTime(RecordField(kept[k], ColYear))
            /\ (ColTime \notin keys /\ ColYear \notin keys /\ <<"d", "a", "t", "e">> \in keys) =>
                  /\ ~HasCol(result.columns, <<"d", "a", "t", "e">>)
                  /\ \A k \in 1..Len(kept) :
                        OutCell(result, k, ColTime) = NormTime(RecordField(kept[k], <<"d", "a", "t", "e">>))

\* two records were read, the first with year 2018 and a null time, the
\* second with time "2019" and no year: their times are "2018" and "2019"
C11_Witness ==
    /\ pc = "json_read"
    /\ data.kind = "list"
    /\ Len(data.records) = 2
    /\ RecordField(data.records[1], ColYear) = I(2018)
    /\ RecordField(data.records[1], ColTime) = NoneCell
    /\ RecordField(data.records[2], ColTime) = S(<<"2", "0", "1", "9">>)
    /\ ~DictHas(data.records[2], ColYear)
    /\ Len(result.rows) = 2
    /\ OutCell(result, 1, ColTime) = S(<<"2", "0", "1", "8">>)
    /\ OutCell(result, 2, ColTime) = S(<<"2", "0", "1", "9">>)
    /\ ~HasCol(result.columns, ColYear)

\* the members of a compact document's `value` whose key is an integer
IntegerMembers(d) == SelectSeq(d.value, LAMBDA m : IntParses(m.key))

\* C12: the read of a compact document whose label keys are all integers
\* does not fail over the keys of `value`, whatever mix of integer and
\* non-integer keys they are, down to none being an integer; a non-integer
\* key gives no row, and each integer key whose value is a number gives one,
\* in the order of the keys.
C12_NonIntegerKeySkipped ==
    (pc \in {"json_read", "json_raised"} /\ IsCompact(data) /\ ~BuildMapsFails(data.dimension)) =>
        /\ pc = "json_read"
        /\ result.ok
        /\ LET kept == SelectSeq(IntegerMembers(data), LAMBDA m : ToNumeric(m.val).k # "nan")
           IN  /\ Len(result.rows) = Len(kept)
               /\ \A k \in 1..Len(kept) :
                     OutCell(result, k, ColValue) = F(ToNumeric(kept[k].val))

\* a compact document whose `value` holds a key and none that is an integer
\* was read, and the read raised KeyError 'value'
C12_NoIntegerKeyRaises ==
    /\ pc = "json_raised"
    /\ IsCompact(data)
    /\ ~BuildMapsFails(data.dimension)
    /\ data.value # <<>>
    /\ IntegerMembers(data) = <<>>
    /\ result.error = "KeyError"

\* the table with its combined header, whatever its letter case and the
\* spaces around it, written in the canonical form
CanonicalHeader(d) ==
    [d EXCEPT !.columns = [i \in 1..Len(d.columns) |->
        IF StrLower(StrStrip(d.columns[i])) = COMBINED THEN COMBINED ELSE d.columns[i]]]

\* C13: clean on a raw wide table whose combined header is written in any
\* letter case, with spaces around it, gives what it gives on the same table
\* under the canonical header: the same outcome, the same rows, and the
\* columns unit, sex, age, region, year, value.
C13_HeaderAnyCase ==
    (pc \in {"cleaned", "clean_raised"} /\ IsRawInput(df)) =>
        /\ result = CleanData(CanonicalHeader(df), export_country_code, country)
        /\ result.ok => result.columns = <<ColUnit, ColSex, ColAge, ColRegion, ColYear, ColValue>>

\* a table under the upper-case header was cleaned to a row
C13_Witness ==
    /\ pc = "cleaned"
    /\ df.columns[1] = StrUpper(COMBINED)
    /\ CanonicalHeader(df) # df
    /\ Len(result.rows) >= 1
    /\ result.columns[4] = ColRegion

\* C14 as stated: a call of clean, whether it returns or raises, leaves the
\* table it was handed with the column headers, rows and cells it had.
C14_InputUntouched ==
    [][(pc = "table" /\ pc' \in {"cleaned", "clean_raised"}) => df' = df]_vars

\* clean returned, and the table it was handed now has a header that lost
\* the spaces around it: "2019 " became "2019"
C14_HeaderStripped ==
    /\ pc = "cleaned"
    /\ Len(df.columns) = 2
    /\ df.columns[2] = <<"2", "0", "1", "9">>
    /\ df.columns[1] = StrUpper(COMBINED)

\* C15 as stated, for the alias parameter of clean: a target that names no
\* member of the catalog makes the call fail with an error that names the
\* offending input and lists every non-aggregate code, and no table is
\* returned.
C15_InvalidRegionListsCodes ==
    (pc = "clean_raised" /\ country # NoneText /\ ~IsRegionName(country)) =>
        /\ ~result.ok
        /\ result.rows = <<>> /\ result.columns = <<>>
        /\ result.offending = country
        /\ result.valid = ActualCountries

\* clean was called with the alias "es", which names no member, and raised
\* a KeyError that lists no code
C15_AliasRaisesBareKeyError ==
    /\ pc = "clean_raised"
    /\ country = <<"e", "s">>
    /\ result.error = "KeyError"
    /\ result.offending = <<"e", "s">>
    /\ result.valid = <<>>

\* the rows of a returned table as the frame steps 5.1 to 7 work on
LongOf(res) ==
    [k \in 1..Len(res.rows) |->
        [unit |-> res.rows[k][1], sex |-> res.rows[k][2], age |-> res.rows[k][3],
         region |-> res.rows[k][4], year |-> res.rows[k][5], value |-> res.rows[k][6]]]

\* C16: the region steps of clean (normalize, filter to the target, project)
\* applied to a table that clean returned for a target, with the same
\* target, give back the very rows of that table, in their order: none is
\* removed and none is changed.
C16_FilterIdempotent ==
    pc = "cleaned" =>
        Projection(FilterRegion(LongOf(result), export_country_code), TRUE).rows = result.rows

\* a table of two rows, one of the target region and one of another, was
\* cleaned to the one row of the target, which filtering again keeps
C16_Witness ==
    /\ pc = "cleaned"
    /\ Len(df.rows) = 2
    /\ Len(result.rows) = 1
    /\ \E c \in Reshaped(df) : Parses(c) /\ c.region # export_country_code.value
    /\ FilterRegion(LongOf(result), export_country_code) # <<>>

\* the error that says the top-level value is of no accepted shape
IsUnsupportedShape(res) ==
    ~res.ok /\ res.error = "ValueError" /\ res.message.text = "Unsupported JSON shape."

\* C17: the read of a JSON document fails as an unsupported shape exactly
\* when the top-level value is neither an array nor an object that holds
\* both `dimension` and `value`; an array gives at most one row per record,
\* an object with both fields at most one row per member of `value`.
C17_TwoTopLevelShapes ==
    pc \in {"json_read", "json_raised"} =>
        /\ IsUnsupportedShape(result) <=>
              ~(\/ data.kind = "list"
                \/ data.kind = "dict" /\ {"dimension", "value"} \subseteq data.keys)
        /\ IsUnsupportedShape(result) => pc = "json_raised" /\ result.rows = <<>>
        /\ (result.ok /\ data.kind = "list") => Len(result.rows) <= Len(data.records)
        /\ (result.ok /\ data.kind = "dict") => Len(result.rows) <= Len(data.value)

\* an object that holds `dimension` and no `value` was refused
C17_Witness ==
    /\ pc = "json_raised"
    /\ data.kind = "dict"
    /\ data.keys = {"dimension"}
    /\ IsUnsupportedShape(result)

\* the names among unit, sex, age, geo, time that are keys of `dimension`,
\* in the order the object holds them; the fixed order when it holds none
KeyOrder(dim) ==
    LET found == SelectSeq([i \in 1..Len(dim) |-> dim[i].key],
                           LAMBDA k : k \in Elems(CanonicalOrder))
    IN  IF found # <<>> THEN found ELSE CanonicalOrder
\* the members of `value` that give a row: integer key, number as value
RowMembers(d) ==
    SelectSeq(IntegerMembers(d), LAMBDA m : ToNumeric(m.val).k # "nan")
\* every returned row carries, under each name of the order, the label the
\* expected row carries
RowsAgree(res, expected, order) ==
    /\ Len(res.rows) = Len(expected)
    /\ \A k \in 1..Len(expected) : \A c \in 1..Len(order) :
          OutCell(res, k, order[c]) = DictGet(expected[k], order[c], NoneCell)

\* C18 as stated: the rows of a compact document are those that unraveling
\* each linear index against the base sizes taken in the key order of
\* `dimension` gives: under each dimension, the label at its coordinate.
C18_DimensionKeyOrder ==
    (pc = "json_read" /\ IsCompact(data)) =>
        RowsAgree(result,
                  RowsFromValues(RowMembers(data), data.dimension, KeyOrder(data.dimension),
                                 DimensionSizes(data.dimension, KeyOrder(data.dimension))),
                  KeyOrder(data.dimension))

\* `dimension` holds time before geo, two times and three regions; the value
\* at linear index 1 was read as (PT, 2020), the coordinates under the order
\* (geo, time), where the key order (time, geo) gives (2019, ES)
C18_CanonicalOrderUsed ==
    /\ pc = "json_read"
    /\ IsCompact(data)
    /\ KeyOrder(data.dimension) = <<ColTime, ColGeo>>
    /\ Len(data.value) = 1
    /\ data.value[1].key = <<"1">>
    /\ Len(result.rows) = 1
    /\ OutCell(result, 1, ColGeo) = S(<<"P", "T">>)
    /\ OutCell(result, 1, ColTime) = S(<<"2", "0", "2", "0">>)

\* the names among unit, sex, age, geo, time that `dimension` holds under
\* the lower-case or the upper-case key, in the fixed order; the fixed order
\* when it holds none
HeldOrder(dim) ==
    LET found == SelectSeq(CanonicalOrder,
                           LAMBDA k : \E i \in 1..Len(dim) : dim[i].key \in {k, StrUpper(k)})
    IN  IF found # <<>> THEN found ELSE CanonicalOrder

\* C19 as stated: every dimension that `dimension` holds, under its
\* lower-case or its upper-case name and however the others are keyed, takes
\* part in every returned row with its labels and its base size: the row of
\* a linear index carries the label at that dimension's coordinate.
C19_EachDimensionAnyCase ==
    (pc = "json_read" /\ IsCompact(data)) =>
        RowsAgree(result,
                  RowsFromValues(RowMembers(data), data.dimension, HeldOrder(data.dimension),
                                 DimensionSizes(data.dimension, HeldOrder(data.dimension))),
                  HeldOrder(data.dimension))

\* `dimension` holds geo and TIME, two labels each; the value at linear
\* index 1 was read as geo ES with an empty time, the TIME dimension left
\* out of the order, where (geo, time) gives PT in 2020
C19_UpperCaseLeftOut ==
    /\ pc = "json_read"
    /\ IsCompact(data)
    /\ HeldOrder(data.dimension) = <<ColGeo, ColTime>>
    /\ DimensionOrder(data.dimension) = <<ColGeo>>
    /\ Len(data.value) = 1
    /\ data.value[1].key = <<"1">>
    /\ Len(result.rows) = 1
    /\ OutCell(result, 1, ColGeo) = S(<<"E", "S">>)
    /\ OutCell(result, 1, ColTime) = S(<<>>)

\* what a record holds for a field: its value under the first synonym of
\* the priority list that is a key of the document
FieldUnder(d, rec, candidates) == RecordField(rec, ChosenKey(d, candidates))

\* C20: in a table the flat reader returns, every row's geo is what its
\* record holds under the first of the geo synonyms among the document's
\* lower-cased keys, its value the number under the first of the value
\* synonyms, and its time what the record holds under the first of
\* (time, year, date), rendered as a time; a synonym further down a list
\* never stands in for a present one above it (the one fill is that of a
\* null time by year, when both are keys).
C20_FirstSynonymWins ==
    (pc = "json_read" /\ data.kind = "list") =>
        /\ Len(result.rows) = Len(KeptRecords(data))
        /\ \A k \in 1..Len(result.rows) :
              /\ OutCell(result, k, ColGeo) = FieldUnder(data, KeptRecords(data)[k], GeoCandidates)
              /\ OutCell(result, k, ColValue)
                    = F(ToNumeric(FieldUnder(data, KeptRecords(data)[k], ValueCandidates)))
              /\ (\/ ~IsNa(FieldUnder(data, KeptRecords(data)[k], TimeCandidates))
                  \/ ColYear \notin LowerKeys(data)
                  \/ ColTime \notin LowerKeys(data))
                    => OutCell(result, k, ColTime)
                          = NormTime(FieldUnder(data, KeptRecords(data)[k], TimeCandidates))

\* records that hold geo and country, time and date, value and val side by
\* side were read: the row carries geo "PT", time "2019" and value 78.6,
\* none of country "ES", date "2020" and val 1.5
C20_Witness ==
    /\ pc = "json_read"
    /\ data.kind = "list"
    /\ {ColGeo, <<"c", "o", "u", "n", "t", "r", "y">>, ColTime, <<"d", "a", "t", "e">>, ColValue, <<"v", "a", "l">>} \subseteq LowerKeys(data)
    /\ Len(result.rows) >= 1
    /\ OutCell(result, 1, ColGeo) = S(<<"P", "T">>)
    /\ OutCell(result, 1, ColTime) = S(<<"2", "0", "1", "9">>)
    /\ OutCell(result, 1, ColValue) = F(ParseFloat(<<"7", "8", ".", "6">>))

\* two tables hold the same rows, each as many times
SameObservations(a, b) ==
    /\ Len(a) = Len(b)
    /\ \A k \in 1..Len(a) : Count(a, a[k]) = Count(b, a[k])

C21_FlaggedValueLost ==
    /\ pc = "read_cleaned"
    /\ Len(df.rows) = 1
    /\ df.rows[1][2] = S(<<"7", "8", ".", "6", " ", "e">>)
    /\ result.rows = <<>>
    /\ Len(CleanData(df, export_country_code, country).rows) = 1

\* the value cells of the table are numbers
ValuesAreNumbers(d) ==
    \A i \in 1..Len(d.rows) :
        /\ d.rows[i][NamedAt(d, ColValue)].t \in {"float", "int"}
        /\ ToNumeric(d.rows[i][NamedAt(d, ColValue)]).k = "num"

\* C22 as stated: every row clean returns for a pre-normalized table whose
\* value cells are numbers comes from a row of the table and carries that
\* row's value, sign and magnitude as they were.
C22_ValuePreserved ==
    (pc = "cleaned" /\ IsNormalizedInput(df) /\ ValuesAreNumbers(df)) =>
        \A k \in 1..Len(result.rows) :
            \E c \in Reshaped(df) :
                /\ result.rows[k] = OutRow(c, export_country_code.value)
                /\ result.rows[k][6] = F(ToNumeric(c.cell))

\* a pre-normalized table with one row of value -2.5 was cleaned to one
\* row of value 2.5
C22_SignLost ==
    /\ pc = "cleaned"
    /\ IsNormalizedInput(df)
    /\ Len(df.rows) = 1
    /\ df.rows[1][NamedAt(df, ColValue)] = F(ParseFloat(<<"-", "2", ".", "5">>))
    /\ Len(result.rows) = 1
    /\ result.rows[1][6] = F(ParseFloat(<<"2", ".", "5">>))

=============================================================================
